---- MODULE Spec2Model ----
(***************************************************************************)
(* cf-execd: the scheduling daemon of cf-agent (src/cf-execd/cf-execd.c).  *)
(*                                                                         *)
(* The model follows the POSIX build (#ifndef __MINGW32__): StartServer,   *)
(* CFExecdMainLoop, ScheduleRun, CheckNewPromises, HandleRequestsOrSleep   *)
(* and LocalExecInFork, together with the processes they fork and the      *)
(* signals, clock, connections and system-call results of the environment. *)
(* Time is counted in whole seconds, as time(NULL) and tv_sec are.  The     *)
(* code reads the clock only in HandleRequestsOrSleep and uses only the    *)
(* difference to the time the call was entered (lines 456 and 508), so the *)
(* clock of the model counts from the entry of the running call.           *)
(***************************************************************************)
EXTENDS Integers, Sequences, FiniteSets, TLC

(* ---- bounds of the model ---- *)

\* fork() fails with EAGAIN once this many children are unreaped
MaxChildren == 1
\* accept() fails with EMFILE once the daemon holds this many accepted descriptors
MaxFds == 1
\* a connection or a signal wakes select()/sleep() after 0..MaxDelay seconds
\* (or one second before the timeout)
MaxDelay == 0
\* connections and signals that wake one call of HandleRequestsOrSleep
MaxWakes == 1
\* seconds spent in accept() and fork()
MaxService == 1
\* a splay_time longer than one pulse
LongSplay == 90
\* distinct values of the policy's validated-at timestamp
MaxStamp == 1
\* process ids in the process table Apoptosis reads
MaxPid == 2
\* --skip-db-check options on one command line
MaxOpts == 2
\* startups of cf-execd that are followed one after the other
MaxStartups == 2

(* ---- program constants ---- *)

\* cf3.defs.h (not part of src/): the pulse of the main loop, in seconds
CFPULSETIME == 60
\* the listening descriptor returned by socket() when the endpoint is bound
LISTEN_FD == 3

\* class sets a rebuilt context may hold
Contexts == {{"Min00_05"}, {"Min30_35"}}
\* values of *execd_config
ExecdConfigs ==
    {[schedule |-> {}, splay_time |-> 0, runagent_allow_users |-> {}],
     [schedule |-> {"Min00_05"}, splay_time |-> LongSplay,
      runagent_allow_users |-> {"alice", "bob"}],
     [schedule |-> {"Min00_05", "Min30_35"}, splay_time |-> 0,
      runagent_allow_users |-> {"alice"}]}
\* a directory whose path, with "/runagent.socket", does not fit sun_path
LongDir == "/a/long/directory"
\* values of RUNAGENT_SOCKET_DIR: NULL (the default directory), "no" or a directory
SocketDirs == {"NULL", "no", LongDir}
\* what can be at the parent directory of the endpoint when the daemon starts:
\* nothing, or a directory with one of these modes
DirModes == {"absent", "0750", "0755"}

MAX(a, b) == IF a > b THEN a ELSE b

VARIABLES
    pc,                   \* position of the daemon process in its code
    now,                  \* time(NULL), counted from the entry of the running sleep
    termination_pending,  \* signals.c flag, set by HandleSignalsForDaemon
    reload_requested,     \* signals.c flag, set by HandleSignalsForDaemon on SIGHUP
    RUNAGENT_SOCKET_DIR,  \* --with-runagent-socket
    runagent_socket,      \* listening descriptor, -1 when there is none
    sock_file,            \* a file exists at the endpoint path
    pid_writes,           \* number of times WritePID("cf-execd.pid") ran
    exit_code,            \* exit status of the daemon, -1 while it runs
    policy,               \* *policy: "loaded" or "NULL"
    execd_config,         \* *execd_config: [schedule, splay_time, runagent_allow_users]
    exec_config,          \* *exec_config: "built" or "destroyed"
    ONCE,                 \* --once
    startup,              \* what StartServer has done, until the first tick begins
    sr,                   \* locals of the running ScheduleRun call
    ctx,                  \* classes defined in the EvalContext
    validated_at,         \* timestamp in the policy-validated file on disk
    last_validated_at,    \* config->agent_specific.daemon.last_validated_at
    hrs,                  \* locals of the running HandleRequestsOrSleep call
    children,             \* forked processes, by slot
    parent_fds,           \* accepted descriptors open in the daemon
    trace,                \* steps taken in the current iteration, in order
    decision,             \* ScheduleRun's return value in the current iteration
    term,                 \* when and where termination_pending became set
    ret,                  \* the last return of HandleRequestsOrSleep
    db,                   \* the repair flag file and the startups that looked for it
    tasks,                \* the agent tasks of the build with threads and the ExecConfig objects
    sun,                  \* the socket address filled in by GetRunagentSocketInfo and its use
    handle,               \* the DBHandle of one database: dbm_api.c
    inst                  \* an old and a new instance of cf-execd and the socket file they share

vars == <<pc, now, termination_pending, reload_requested, RUNAGENT_SOCKET_DIR,
          runagent_socket, sock_file, pid_writes, exit_code, policy, execd_config,
          ctx, validated_at, last_validated_at, hrs, children, parent_fds,
          trace, decision, term, ret, exec_config, sr, ONCE, startup, db, tasks, sun,
          handle, inst>>

\* the state of the daemon process followed by Spec
daemon_vars == <<pc, now, termination_pending, reload_requested, RUNAGENT_SOCKET_DIR,
                 runagent_socket, sock_file, pid_writes, exit_code, policy,
                 execd_config, ctx, validated_at, last_validated_at, hrs, children,
                 parent_fds, trace, decision, term, ret, exec_config, sr, ONCE,
                 startup>>

Slots == 1..MaxChildren

\* config: the ExecConfig in the child's copy of the address space
NoChild == [kind |-> "none", pc |-> "none", sigpipe |-> "none", status |-> "none",
            config |-> "none"]
\* log: the errors the last step of the call has logged
NoHRS == [reason |-> "none", seconds |-> 0, sleep_started |-> 0, remaining |-> 0, wakes |-> 0,
          log |-> {}]
NoTerm == [at |-> -1, reason |-> "none"]
\* a StringSet pointer is modelled by the set it points to, a null pointer and
\* a pointer to freed memory by these two values
NullSet == {"(null)"}
FreedSet == {"(freed)"}
\* *execd_config before ExecdConfigNew, main, line 198
NotBuilt == [schedule |-> {}, splay_time |-> 0, runagent_allow_users |-> NullSet]
\* what ExecdConfigDestroy leaves, line 1004 and main, line 214
Destroyed == [schedule |-> {}, splay_time |-> 0, runagent_allow_users |-> FreedSet]
\* steps: what StartServer did; stale: a file was at the endpoint path at the
\* start; killed, logged: Apoptosis; dir: the parent directory of the endpoint;
\* created: MakeParentDirectory made it; log: the errors main and
\* SetupRunagentSocket logged
NoStartup == [steps |-> <<>>, stale |-> FALSE, killed |-> {}, logged |-> FALSE,
              dir |-> "none", created |-> FALSE, log |-> {}]
NoTriple == [policy |-> "none", execd_config |-> Destroyed, exec_config |-> "none"]
NoACL == [called |-> FALSE, allow_users |-> {}, success |-> FALSE]
NoSR == [validated_at |-> -1, stale |-> FALSE, requested |-> FALSE, valid |-> "none",
         old |-> NoTriple, old_runagent_allow_users |-> NullSet, acl |-> NoACL]
NoRet == [reason |-> "none", terminate |-> FALSE, at |-> 0, seconds |-> 0, wakes |-> 0,
          log |-> {}]

\* positions inside HandleRequestsOrSleep
HRSPcs == {"hrs_entry", "hrs_select", "hrs_accept", "hrs_sleep"}
\* positions of the main loop and of ScheduleRun
LoopPcs == {"loop_top", "reap", "check", "check_clear", "check_valid", "full_begin",
            "full_load", "full_destroy", "full_new", "env_reload", "decide", "launch",
            "inline_exec"}
\* positions of a forked request handler
HandlerPcs == {"h_start", "h_handle", "exited"}

\* tasks.build: "fork" (lines 805-829) or "thread" (lines 831-858), fixed by the
\* platform; tasks.heap: the ExecConfig objects ever allocated, by address;
\* tasks.exec_config: the supervisor's *exec_config; tasks.runs: the detached
\* runs in launch order; tasks.reloads: full reloads so far
NoTasks == [build |-> "none", heap |-> <<>>, exec_config |-> 0, runs |-> <<>>,
            reloads |-> 0]

\* sun.pc: where the call is; sun.dir: the directory given; sun.state_dir: whether
\* it is GetStateDir() (RUNAGENT_SOCKET_DIR == NULL); sun.sun_path: the string in
\* sock_info.sun_path; sun.ret: the result of snprintf; sun.ok: the value
\* returned; sun.unlinked, sun.bound: the paths given to unlink() and bind()
NoSun == [pc |-> "none", dir |-> <<>>, state_dir |-> FALSE, sun_path |-> <<>>,
          ret |-> 0, ok |-> FALSE, unlinked |-> <<>>, bound |-> <<>>]

\* dbm_api.c lines 52-55 and 236: a DBHandle as initialised, not frozen.
\* handle.priv: "NULL", "open" (the result of DBPrivOpenDB) or "closed" (the
\* pointer kept after DBPrivCloseDB); handle.opens, handle.closes: the opens that
\* returned true and the closes that found the count positive; handle.stale:
\* whether a DBPriv function was given a closed priv; handle.last: the last call
NoCall == [op |-> "none", result |-> FALSE, refcount |-> 0, lock |-> FALSE,
           opened |-> FALSE, given |-> "NULL"]
NoHandle == [refcount |-> 0, priv |-> "NULL", opens |-> 0, closes |-> 0, calls |-> 0,
             stale |-> FALSE, last |-> NoCall]

\* inst.at: where the old and the new instance are; inst.term: their
\* termination_pending; inst.file: whose bind() made the socket file now at the
\* endpoint path ("none": no file); inst.lost: whether the file of the new
\* instance has been unlinked by the old one
NoInst == [at |-> [old |-> "none", new |-> "none"],
           term |-> [old |-> FALSE, new |-> FALSE], file |-> "none", lost |-> FALSE]

(* ---- the database repair at startup: cf-execd.c lines 74, 171-176, 370-391,
        dbm_api.c lines 717-736 ---- *)

\* the arguments --skip-db-check can be given: none (optarg == NULL) or a word
OptArgs == {"NULL", "yes", "no", "NO", "maybe"}

RECURSIVE SeqsUpTo(_, _)
SeqsUpTo(S, n) ==
    IF n = 0
    THEN {<<>>}
    ELSE LET shorter == SeqsUpTo(S, n - 1)
         IN  shorter \cup {Append(q, x) : q \in shorter, x \in S}

\* the command lines: the --skip-db-check options given, in order
CommandLines == SeqsUpTo(OptArgs, MaxOpts)

\* string_lib: the comparison of StringEqual_IgnoreCase, on the words of OptArgs
ToLower(w) == IF w = "NO" THEN "no" ELSE w
StringEqual_IgnoreCase(a, b) == ToLower(a) = ToLower(b)

\* cf-execd.c lines 370-391: one --skip-db-check option; `exit` when CheckOpts
\* calls DoCleanupAndExit(EXIT_FAILURE)
SkipDbCheck(check, optarg) ==
    IF optarg = "NULL" THEN [check |-> FALSE, exit |-> FALSE]
    ELSE IF StringEqual_IgnoreCase(optarg, "yes") THEN [check |-> FALSE, exit |-> FALSE]
    ELSE IF StringEqual_IgnoreCase(optarg, "no") THEN [check |-> TRUE, exit |-> FALSE]
    ELSE [check |-> check, exit |-> TRUE]

\* cf-execd.c lines 224-418: the getopt loop, over the --skip-db-check options
RECURSIVE CheckOpts(_, _)
CheckOpts(check, argv) ==
    IF argv = <<>>
    THEN [check |-> check, exit |-> FALSE]
    ELSE LET r == SkipDbCheck(check, Head(argv))
         IN  IF r.exit THEN r ELSE CheckOpts(r.check, Tail(argv))

\* cf-execd.c line 173 with the test of PERFORM_DB_CHECK left out
RepairWanted_FlagOnly(force_repair, check) == force_repair

\* cf-execd.c line 173: if (force_repair || PERFORM_DB_CHECK)
RepairWanted(force_repair, check) == force_repair \/ check

\* cf-execd.c lines 173-176: repair_lmdb_default(force_repair), or nothing
Repair(force_repair, check) ==
    IF RepairWanted(force_repair, check)
    THEN IF force_repair THEN "forced" ELSE "checked"
    ELSE "none"

\* flag_file: the repair flag file exists in the state directory;
\* pc, argv, PERFORM_DB_CHECK, force_repair, repair: the startup in progress or
\* the last one; removed, recreated, runs, last: history kept for the properties
NoDB == [pc |-> "idle", argv |-> <<>>, PERFORM_DB_CHECK |-> FALSE, flag_file |-> FALSE,
         force_repair |-> FALSE, repair |-> "none", removed |-> FALSE,
         recreated |-> FALSE, runs |-> 0, last |-> "none"]

\* cf-execd is started with a command line; line 74: PERFORM_DB_CHECK = false
Exec ==
    /\ db.pc = "idle"
    /\ db.runs < MaxStartups
    /\ \E argv \in CommandLines :
          db' = [db EXCEPT !.pc = "opts", !.argv = argv, !.PERFORM_DB_CHECK = FALSE,
                           !.force_repair = FALSE, !.repair = "none",
                           !.runs = @ + 1,
                           !.last = IF db.runs = 0 THEN "none" ELSE db.repair]
    /\ UNCHANGED <<daemon_vars, tasks, sun, handle, inst>>

\* cf-execd.c line 171: GenericAgentConfig *config = CheckOpts(argc, argv)
ParseOpts ==
    /\ db.pc = "opts"
    /\ LET r == CheckOpts(db.PERFORM_DB_CHECK, db.argv)
       IN  db' = [db EXCEPT !.pc = IF r.exit THEN "exited" ELSE "flag",
                            !.PERFORM_DB_CHECK = r.check]
    /\ UNCHANGED <<daemon_vars, tasks, sun, handle, inst>>

\* dbm_api.c lines 717-736, cf-execd.c line 172:
\* bool force_repair = CheckDBRepairFlagFile()
CheckDBRepairFlagFile ==
    /\ db.pc = "flag"
    /\ db' = [db EXCEPT !.pc = "repair",
                        !.force_repair = db.flag_file,
                        !.flag_file = FALSE,
                        !.removed = @ \/ db.flag_file,
                        !.recreated = IF db.flag_file THEN FALSE ELSE @]
    /\ UNCHANGED <<daemon_vars, tasks, sun, handle, inst>>

\* cf-execd.c lines 173-176
RepairLmdb ==
    /\ db.pc = "repair"
    /\ db' = [db EXCEPT !.pc = "started",
                        !.repair = Repair(db.force_repair, db.PERFORM_DB_CHECK)]
    /\ UNCHANGED <<daemon_vars, tasks, sun, handle, inst>>

\* the process ends, by the exit of CheckOpts or any time after its repair test
ProcessEnds ==
    /\ db.pc \in {"exited", "started"}
    /\ db' = [db EXCEPT !.pc = "idle"]
    /\ UNCHANGED <<daemon_vars, tasks, sun, handle, inst>>

\* dbm_api.c lines 725-728: a user or a process that met a corrupted database
\* creates the flag file
CreateFlagFile ==
    /\ ~db.flag_file
    /\ db' = [db EXCEPT !.flag_file = TRUE, !.recreated = db.removed]
    /\ UNCHANGED <<daemon_vars, tasks, sun, handle, inst>>

RepairInit ==
    /\ \E present \in BOOLEAN : db = [NoDB EXCEPT !.flag_file = present]
    /\ pc = "main"
    /\ now = 0
    /\ termination_pending = FALSE
    /\ reload_requested = FALSE
    /\ RUNAGENT_SOCKET_DIR = "NULL"
    /\ runagent_socket = -1
    /\ sock_file = FALSE
    /\ pid_writes = 0
    /\ exit_code = -1
    /\ policy = "NULL"
    /\ execd_config = NotBuilt
    /\ exec_config = "none"
    /\ ONCE = FALSE
    /\ startup = NoStartup
    /\ sr = NoSR
    /\ ctx = {}
    /\ validated_at = 0
    /\ last_validated_at = 0
    /\ hrs = NoHRS
    /\ children = [s \in Slots |-> NoChild]
    /\ parent_fds = 0
    /\ trace = <<>>
    /\ decision = "none"
    /\ term = NoTerm
    /\ ret = NoRet
    /\ inst = NoInst
    /\ handle = NoHandle
    /\ sun = NoSun
    /\ tasks = NoTasks

RepairNext ==
    \/ Exec
    \/ ParseOpts
    \/ CheckDBRepairFlagFile
    \/ RepairLmdb
    \/ ProcessEnds
    \/ CreateFlagFile

\* the startups of cf-execd, one after the other, up to the repair test of main
RepairSpec == RepairInit /\ [][RepairNext]_vars

(* ---- cf-execd.c lines 803-858, 1003-1007: detached agent runs and their ExecConfig ---- *)

\* the daemon followed by Spec, before main has run
DaemonAtRest ==
    /\ ret = NoRet /\ term = NoTerm /\ decision = "none" /\ trace = <<>>
    /\ pc = "main"
    /\ now = 0
    /\ termination_pending = FALSE
    /\ reload_requested = FALSE
    /\ RUNAGENT_SOCKET_DIR = "NULL"
    /\ runagent_socket = -1
    /\ sock_file = FALSE
    /\ pid_writes = 0
    /\ exit_code = -1
    /\ policy = "NULL"
    /\ execd_config = NotBuilt
    /\ exec_config = "none"
    /\ ONCE = FALSE
    /\ startup = NoStartup
    /\ sr = NoSR
    /\ ctx = {}
    /\ validated_at = 0
    /\ last_validated_at = 0
    /\ hrs = NoHRS
    /\ children = [s \in Slots |-> NoChild]
    /\ parent_fds = 0

MaxLaunches == 3
MaxReloads == 2

\* who destroyed an ExecConfig object: nobody yet, or the supervisor; a detached
\* run is named by its index in tasks.runs
Nobody == 0
Supervisor == -1

\* line 1006: an ExecConfig built from the policy of the given generation
ExecConfigNew(generation) ==
    [state |-> "built", policy |-> generation, frees |-> 0, by |-> Nobody]

\* lines 836, 851, 1003: ExecConfigDestroy(config) by `who`
ExecConfigDestroy(heap, config, who) ==
    [heap EXCEPT ![config].state = "freed", ![config].frees = @ + 1, ![config].by = who]

\* line 844 with the thread handed the supervisor's own object
ExecConfigCopy_Alias(heap, config) == config

\* line 844: ExecConfigCopy(config) returns a new object (the address after the
\* last one allocated) with the fields of `config`; exec-config.c is not part
\* of src/, the copy is the "clone" of the spec's data model, owned by the caller
ExecConfigCopy(heap, config) == Len(heap) + 1

\* the heap once a copy of `config` has been allocated
HeapWithCopy(heap, config) == Append(heap, ExecConfigNew(heap[config].policy))

\* a detached run: kind "thread", "fork" or "blocking" (line 723); config: the
\* object it was handed; policy: the generation of *exec_config at its launch;
\* saw, saw_policy: what LocalExec read; during: full reloads while it ran
Run(kind, config, generation, at) ==
    [kind |-> kind, config |-> config, policy |-> generation, pc |-> at,
     saw |-> "none", saw_policy |-> -1, during |-> 0]

\* what LocalExec(config) reads of its configuration
LocalExecReads(heap, r) ==
    [r EXCEPT !.saw = heap[r.config].state, !.saw_policy = heap[r.config].policy]

ThreadInit ==
    /\ \E build \in {"fork", "thread"} :
          tasks = [NoTasks EXCEPT !.build = build, !.heap = <<ExecConfigNew(0)>>,
                                  !.exec_config = 1]
    /\ DaemonAtRest
    /\ inst = NoInst
    /\ handle = NoHandle
    /\ sun = NoSun
    /\ db = NoDB

\* lines 842-858, pthread_create returns 0: the thread starts with the copy
LocalExecInThread ==
    /\ tasks.build = "thread"
    /\ Len(tasks.runs) < MaxLaunches
    /\ LET cur == tasks.exec_config
           thread_config == ExecConfigCopy(tasks.heap, cur)
       IN  tasks' = [tasks EXCEPT
                        !.heap = HeapWithCopy(tasks.heap, cur),
                        !.runs = Append(@, Run("thread", thread_config,
                                               tasks.heap[cur].policy, "exec"))]
    /\ UNCHANGED <<daemon_vars, db, sun, handle, inst>>

\* lines 842-856 and 719-724, pthread_create fails: the copy is destroyed by the
\* supervisor, which then runs LocalExec(*exec_config) itself
LocalExecInThread_Fails ==
    /\ tasks.build = "thread"
    /\ Len(tasks.runs) < MaxLaunches
    /\ LET cur == tasks.exec_config
           thread_config == ExecConfigCopy(tasks.heap, cur)
           heap == ExecConfigDestroy(HeapWithCopy(tasks.heap, cur), thread_config,
                                     Supervisor)
       IN  tasks' = [tasks EXCEPT
                        !.heap = heap,
                        !.runs = Append(@, LocalExecReads(heap,
                                     Run("blocking", cur, tasks.heap[cur].policy, "done")))]
    /\ UNCHANGED <<daemon_vars, db, sun, handle, inst>>

\* lines 805-829, fork succeeds: the child has the image of the supervisor's
\* memory at the fork, and its `config` is the object in that image
LocalExecInFork_Image ==
    /\ tasks.build = "fork"
    /\ Len(tasks.runs) < MaxLaunches
    /\ LET cur == tasks.exec_config
       IN  tasks' = [tasks EXCEPT
                        !.heap = HeapWithCopy(tasks.heap, cur),
                        !.runs = Append(@, Run("fork", Len(tasks.heap) + 1,
                                               tasks.heap[cur].policy, "exec"))]
    /\ UNCHANGED <<daemon_vars, db, sun, handle, inst>>

\* lines 816-818 and 834-835: LocalExec(config) in the child or in the thread;
\* the child then leaves with _exit(0), the thread goes on to line 836
LocalExec(i) ==
    /\ tasks.runs[i].pc = "exec"
    /\ tasks' = [tasks EXCEPT
                    !.runs[i] = [LocalExecReads(tasks.heap, @) EXCEPT
                                    !.pc = IF @ = "exec" /\ tasks.runs[i].kind = "thread"
                                           THEN "destroy" ELSE "done"]]
    /\ UNCHANGED <<daemon_vars, db, sun, handle, inst>>

\* line 836: ExecConfigDestroy(config) by the thread
LocalExecThread_Destroy(i) ==
    /\ tasks.runs[i].pc = "destroy"
    /\ tasks' = [tasks EXCEPT
                    !.heap = ExecConfigDestroy(@, tasks.runs[i].config, i),
                    !.runs[i].pc = "done"]
    /\ UNCHANGED <<daemon_vars, db, sun, handle, inst>>

\* lines 1003-1007 of a full reload in ScheduleRun: the supervisor's ExecConfig
\* is destroyed and a new one built from the new policy
FullReload ==
    /\ tasks.reloads < MaxReloads
    /\ LET heap == ExecConfigDestroy(tasks.heap, tasks.exec_config, Supervisor)
       IN  tasks' = [tasks EXCEPT
                        !.heap = Append(heap, ExecConfigNew(tasks.reloads + 1)),
                        !.exec_config = Len(heap) + 1,
                        !.reloads = @ + 1,
                        !.runs = [i \in DOMAIN @ |->
                                    IF @[i].pc = "done" THEN @[i]
                                    ELSE [@[i] EXCEPT !.during = @ + 1]]]
    /\ UNCHANGED <<daemon_vars, db, sun, handle, inst>>

ThreadNext ==
    \/ LocalExecInThread
    \/ LocalExecInThread_Fails
    \/ LocalExecInFork_Image
    \/ \E i \in 1..MaxLaunches : i \in DOMAIN tasks.runs /\ LocalExec(i)
    \/ \E i \in 1..MaxLaunches : i \in DOMAIN tasks.runs /\ LocalExecThread_Destroy(i)
    \/ FullReload

\* the supervisor's full reloads and the agent runs it has detached
ThreadSpec == ThreadInit /\ [][ThreadNext]_vars

(* ---- cf-execd.c lines 576-598, 614-651: the endpoint path in sun_path ---- *)

\* sizeof(sock_info->sun_path) of struct sockaddr_un on Linux
sizeof_sun_path == 108
MaxDirLen == 93

\* line 67 and the formats of lines 590 and 595, after the "%s"
RunagentSocketName ==
    <<"/", "r", "u", "n", "a", "g", "e", "n", "t", ".", "s", "o", "c", "k", "e", "t">>
StateDirSockets ==
    <<"/", "c", "f", "-", "e", "x", "e", "c", "d", ".", "s", "o", "c", "k", "e", "t", "s">>

\* a directory name of n characters
Dir(n) == [i \in 1..n |-> IF i = 1 THEN "/" ELSE "d"]

\* the string the format of line 590 or 595 produces
SocketPath(state_dir, dir) ==
    IF state_dir THEN dir \o StateDirSockets \o RunagentSocketName
    ELSE dir \o RunagentSocketName

\* snprintf(buf, size, ...) for size > 0: at most size - 1 characters are stored,
\* followed by a NUL; the value returned is the length of the whole string
Snprintf(size, str) ==
    [buf |-> SubSeq(str, 1, IF Len(str) < size - 1 THEN Len(str) ELSE size - 1),
     ret |-> Len(str)]

PathInit ==
    /\ \E n \in 1..MaxDirLen, state_dir \in BOOLEAN :
          sun = [NoSun EXCEPT !.pc = "format", !.dir = Dir(n), !.state_dir = state_dir]
    /\ DaemonAtRest
    /\ inst = NoInst
    /\ handle = NoHandle
    /\ tasks = NoTasks
    /\ db = NoDB

\* lines 580-596: memset, then snprintf with the size sizeof(sun_path) - 1
FormatSunPath ==
    /\ sun.pc = "format"
    /\ LET r == Snprintf(sizeof_sun_path - 1, SocketPath(sun.state_dir, sun.dir))
       IN  sun' = [sun EXCEPT !.pc = "test", !.sun_path = r.buf, !.ret = r.ret]
    /\ UNCHANGED <<daemon_vars, tasks, db, handle, inst>>

\* line 597
ReturnSocketInfo ==
    /\ sun.pc = "test"
    /\ sun' = [sun EXCEPT !.pc = "returned",
                          !.ok = (sun.ret > 0 /\ sun.ret <= sizeof_sun_path - 1)]
    /\ UNCHANGED <<daemon_vars, tasks, db, handle, inst>>

\* lines 621-651, GetRunagentSocketInfo returned true: unlink(sun_path), bind
UnlinkAndBind ==
    /\ sun.pc = "returned"
    /\ sun.ok
    /\ sun' = [sun EXCEPT !.pc = "bound", !.unlinked = sun.sun_path,
                          !.bound = sun.sun_path]
    /\ UNCHANGED <<daemon_vars, tasks, db, handle, inst>>

\* lines 621, 643-646, GetRunagentSocketInfo returned false: the error is logged
\* and there is no listener
NoSocketInfo ==
    /\ sun.pc = "returned"
    /\ ~sun.ok
    /\ sun' = [sun EXCEPT !.pc = "disabled"]
    /\ UNCHANGED <<daemon_vars, tasks, db, handle, inst>>

PathNext ==
    \/ FormatSunPath
    \/ ReturnSocketInfo
    \/ UnlinkAndBind
    \/ NoSocketInfo

\* SetupRunagentSocket up to bind(), for directories of every length
PathSpec == PathInit /\ [][PathNext]_vars

(* ---- dbm_api.c lines 370-445, 472-506: the reference count of a DBHandle ---- *)

MaxCalls == 6

\* lines 382-400: handle->priv once the count was found 0. With the path lock,
\* DBPrivOpenDB gives a database, NULL or DB_PRIV_DATABASE_BROKEN; a broken one
\* is moved away and the open tried again, broken twice giving NULL. Without
\* the lock priv is left as it was.
PrivAfterLock(priv, lock, open1, open2) ==
    IF ~lock THEN priv
    ELSE IF open1 = "BROKEN" THEN (IF open2 = "db" THEN "open" ELSE "NULL")
    ELSE IF open1 = "db" THEN "open" ELSE "NULL"

\* lines 403-411: DBMigrate on a priv that is set; when it fails the database
\* is closed and priv set to NULL
PrivAfterMigrate(priv, migrated) == IF priv # "NULL" /\ ~migrated THEN "NULL" ELSE priv

HandleInit ==
    /\ handle = NoHandle
    /\ DaemonAtRest
    /\ inst = NoInst
    /\ sun = NoSun
    /\ tasks = NoTasks
    /\ db = NoDB

\* lines 370-445: OpenDB or OpenSubDB, under handle->lock. DBMigrate reads the
\* database through priv: on a closed one its result is one the build happens
\* to produce, true or false.
OpenDBInstance(lock, open1, open2, migrated) ==
    /\ handle.calls < MaxCalls
    /\ LET found == handle.refcount = 0
           locked == IF found THEN PrivAfterLock(handle.priv, lock, open1, open2)
                     ELSE handle.priv
           priv == IF found THEN PrivAfterMigrate(locked, migrated) ELSE locked
       IN  handle' = [handle EXCEPT
                         !.priv = priv,
                         !.refcount = IF priv # "NULL" THEN @ + 1 ELSE @,
                         !.opens = IF priv # "NULL" THEN @ + 1 ELSE @,
                         !.calls = @ + 1,
                         !.stale = @ \/ (found /\ locked = "closed"),
                         !.last = [op |-> "open", result |-> priv # "NULL",
                                   refcount |-> handle.refcount,
                                   lock |-> found /\ lock,
                                   opened |-> found /\ lock /\ locked = "open",
                                   given |-> priv]]
    /\ UNCHANGED <<daemon_vars, tasks, db, sun, inst>>

\* lines 472-506: CloseDB under handle->lock; DBPrivCommit(handle->priv) comes
\* before the test of the count
CloseDB ==
    /\ handle.calls < MaxCalls
    /\ LET last == handle.refcount = 1
       IN  handle' = [handle EXCEPT
                         !.refcount = IF @ < 1 THEN @ ELSE @ - 1,
                         !.closes = IF handle.refcount < 1 THEN @ ELSE @ + 1,
                         !.priv = IF last /\ @ = "open" THEN "closed" ELSE @,
                         !.calls = @ + 1,
                         !.stale = @ \/ handle.priv = "closed",
                         !.last = [NoCall EXCEPT !.op = "close",
                                                 !.refcount = handle.refcount]]
    /\ UNCHANGED <<daemon_vars, tasks, db, sun, inst>>

HandleNext ==
    \/ \E lock, migrated \in BOOLEAN, open1, open2 \in {"db", "NULL", "BROKEN"} :
          OpenDBInstance(lock, open1, open2, migrated)
    \/ CloseDB

\* the calls of OpenDB, OpenSubDB and CloseDB on one handle, in any order: each
\* runs under handle->lock, so calls from several threads come one after another
HandleSpec == HandleInit /\ [][HandleNext]_vars

(* ---- cf-execd.c lines 527-573, 614-651, 736-801, 863-906: a restart ---- *)

\* lines 744-799 and 621-659: what the new instance does from StartServer to
\* its main loop, each step with the one after it
NewSteps == [apoptosis |-> "fork", fork |-> "ActAsDaemon", ActAsDaemon |-> "WritePID",
             WritePID |-> "signal", signal |-> "umask", umask |-> "MakeParentDirectory",
             MakeParentDirectory |-> "unlink", unlink |-> "socket", socket |-> "bind",
             bind |-> "listen", listen |-> "while"]

\* lines 532-563: the places of the main loop
InMainLoop == {"while", "ScheduleRun", "splay", "LocalExecInFork", "pulse"}

\* lines 532-563: where an instance goes from `at` in its main loop with
\* termination_pending = pending; run: the result of ScheduleRun
LoopAfter(at, pending, run) ==
    CASE at = "while"       -> IF pending THEN "exit_unlink" ELSE "ScheduleRun"
      [] at = "ScheduleRun" -> IF run THEN "splay" ELSE "pulse"
      [] at = "splay"       -> IF pending THEN "exit_unlink" ELSE "LocalExecInFork"
      [] at = "LocalExecInFork" -> "pulse"
      [] at = "pulse"       -> IF pending THEN "exit_unlink" ELSE "while"

\* the old instance is anywhere in its main loop with its socket bound, and the
\* new one has just been started
RestartInit ==
    /\ \E at \in InMainLoop :
          inst = [NoInst EXCEPT !.at = [old |-> at, new |-> "apoptosis"],
                                !.file = "old"]
    /\ DaemonAtRest
    /\ handle = NoHandle
    /\ sun = NoSun
    /\ tasks = NoTasks
    /\ db = NoDB

\* lines 532-563: a step of the main loop of instance i
MainLoop(i) ==
    /\ inst.at[i] \in InMainLoop
    /\ \E run \in BOOLEAN :
          inst' = [inst EXCEPT !.at[i] = LoopAfter(@, inst.term[i], run)]
    /\ UNCHANGED <<daemon_vars, tasks, db, sun, handle>>

\* lines 565-573: instance i, out of its loop, unlinks the endpoint path
ExitUnlink(i) ==
    /\ inst.at[i] = "exit_unlink"
    /\ inst' = [inst EXCEPT !.at[i] = "exited", !.file = "none",
                            !.lost = @ \/ (i = "old" /\ inst.file = "new")]
    /\ UNCHANGED <<daemon_vars, tasks, db, sun, handle>>

\* lines 744-748 and 863-906: kill(pid, SIGTERM) for every other cf-execd of the
\* user; the handler of the old instance sets its termination_pending. Nothing
\* waits for the old instance to exit.
NewApoptosis ==
    /\ inst.at.new = "apoptosis"
    /\ inst' = [inst EXCEPT !.at.new = NewSteps[@],
                            !.term.old = @ \/ inst.at.old # "exited"]
    /\ UNCHANGED <<daemon_vars, tasks, db, sun, handle>>

\* lines 750-781, 621-636, 640, 653-659: the steps of the new instance that
\* leave the endpoint path alone
NewStartup ==
    /\ inst.at.new \in {"fork", "ActAsDaemon", "WritePID", "signal", "umask",
                        "MakeParentDirectory", "socket", "listen"}
    /\ inst' = [inst EXCEPT !.at.new = NewSteps[@]]
    /\ UNCHANGED <<daemon_vars, tasks, db, sun, handle>>

\* line 638: unlink(sock_info.sun_path)
NewUnlink ==
    /\ inst.at.new = "unlink"
    /\ inst' = [inst EXCEPT !.at.new = NewSteps[@], !.file = "none"]
    /\ UNCHANGED <<daemon_vars, tasks, db, sun, handle>>

\* lines 647-650: bind() creates the socket file; it fails with EADDRINUSE, and
\* leaves the file there alone, if there is one
NewBind ==
    /\ inst.at.new = "bind"
    /\ inst' = [inst EXCEPT !.at.new = IF inst.file = "none" THEN NewSteps[@]
                                       ELSE "no_listener",
                            !.file = IF @ = "none" THEN "new" ELSE @]
    /\ UNCHANGED <<daemon_vars, tasks, db, sun, handle>>

\* a terminate signal for the new instance, once it is in its main loop
NewTerminated ==
    /\ inst.at.new \in InMainLoop
    /\ ~inst.term.new
    /\ inst' = [inst EXCEPT !.term.new = TRUE]
    /\ UNCHANGED <<daemon_vars, tasks, db, sun, handle>>

RestartNext ==
    \/ \E i \in {"old", "new"} : MainLoop(i)
    \/ \E i \in {"old", "new"} : ExitUnlink(i)
    \/ NewApoptosis
    \/ NewStartup
    \/ NewUnlink
    \/ NewBind
    \/ NewTerminated

\* a new cf-execd started while an old one of the same user is running
RestartSpec == RestartInit /\ [][RestartNext]_vars

(* ---- signals.c (not part of src/): modelled from the spec, section 4.8 ---- *)

IsPendingTermination == termination_pending
ReloadConfigRequested == reload_requested

(* ---- cf-execd.c ---- *)

\* lines 432-437 without the test for "no": the endpoint is always set up
UsingRunagentSocket_Always == TRUE

\* lines 432-437: no directory given (the default is used) or a directory other
\* than "no"
UsingRunagentSocket == RUNAGENT_SOCKET_DIR = "NULL" \/ RUNAGENT_SOCKET_DIR # "no"

\* line 597 without the test of the length: every path is taken to fit
GetRunagentSocketInfo_Unchecked == TRUE

\* lines 576-598: true when the path fits sun_path; the default path
\* "<state>/cf-execd.sockets/runagent.socket" does
GetRunagentSocketInfo == RUNAGENT_SOCKET_DIR # LongDir

Init ==
    /\ pc = "main"
    /\ now = 0
    /\ termination_pending = FALSE
    /\ reload_requested = FALSE
    /\ RUNAGENT_SOCKET_DIR \in SocketDirs
    /\ runagent_socket = -1
    /\ sock_file \in BOOLEAN
    /\ pid_writes = 0
    /\ exit_code = -1
    /\ policy = "NULL"
    /\ execd_config = NotBuilt
    /\ exec_config = "none"
    /\ ONCE \in BOOLEAN
    /\ \E dir \in (IF UsingRunagentSocket THEN DirModes ELSE {"none"}) :
          startup = [NoStartup EXCEPT !.stale = sock_file, !.dir = dir]
    /\ sr = NoSR
    /\ ctx = {}
    /\ validated_at = 0
    /\ last_validated_at = 0
    /\ hrs = NoHRS
    /\ children = [s \in Slots |-> NoChild]
    /\ parent_fds = 0
    /\ trace = <<>>
    /\ decision = "none"
    /\ term = NoTerm
    /\ ret = NoRet
    /\ inst = NoInst
    /\ handle = NoHandle
    /\ sun = NoSun
    /\ tasks = NoTasks
    /\ db = NoDB

(* ---- history kept for the properties ---- *)

\* the signal handler sets termination_pending now, at this position
Terminated(t) ==
    IF termination_pending
    THEN term
    ELSE [at |-> t, reason |-> hrs.reason]

(* ---- main, lines 169-218 ---- *)

\* stdlib.h
EXIT_FAILURE == 1
\* the status of a process killed by abort(): 128 + SIGABRT
ABORTED == 134

\* lines 188-192 left out: main goes on whatever SelectAndLoadPolicy returned
AfterLoad_Unchecked(loaded) == "start"

\* lines 188-192: without a policy main calls DoCleanupAndExit(EXIT_FAILURE)
AfterLoad(loaded) == IF loaded THEN "start" ELSE "load_failed"

\* lines 186-199: SelectAndLoadPolicy returns the policy or NULL; without a
\* policy the error is logged and the process exits, with one both configs are
\* built from it
Main ==
    /\ pc = "main"
    /\ \E loaded \in BOOLEAN :
          /\ policy' = IF loaded THEN "loaded" ELSE "NULL"
          /\ pc' = AfterLoad(loaded)
          /\ IF pc' = "start"
             THEN /\ exec_config' = "built"
                  /\ execd_config' \in ExecdConfigs
                  /\ UNCHANGED <<exit_code, startup>>
             ELSE /\ startup' = [startup EXCEPT !.log = @ \cup {"policy"}]
                  /\ exit_code' = EXIT_FAILURE
                  /\ UNCHANGED <<exec_config, execd_config>>
    /\ UNCHANGED <<now, termination_pending, reload_requested, RUNAGENT_SOCKET_DIR,
                   runagent_socket, sock_file, pid_writes, ONCE, sr, ctx, validated_at,
                   last_validated_at, hrs, children, parent_fds, trace, decision,
                   term, ret, db, tasks, sun, handle, inst>>

(* ---- StartServer, lines 735-801 ---- *)

\* the process table: ids of the processes SelectProcesses may return
Pids == 1..MaxPid
\* line 889: getpid() in the starting process
getpid == 1

\* line 889 without the test pid != getpid()
KillTargets_All(killlist, self) == killlist

\* line 889: the processes of the kill list that kill(pid, SIGTERM) is called for
KillTargets(killlist, self) == killlist \ {self}

\* line 639 left out: the file at the endpoint path stays
Unlink_Skipped(file) == file

\* line 639: unlink(sock_info.sun_path); whether a file is at the path afterwards
Unlink(file) == FALSE

\* lines 744-748 and Apoptosis, lines 863-906: unless --once, SIGTERM goes to
\* the processes SelectProcesses returns, except this one; `failed` are those
\* for which kill fails, with ESRCH or with another error, which is logged
Apoptosis ==
    /\ pc = "start"
    /\ IF ONCE
       THEN UNCHANGED startup
       ELSE \E LoadProcessTable \in BOOLEAN, killlist \in SUBSET Pids, esrch \in BOOLEAN :
               LET targets == IF LoadProcessTable THEN KillTargets(killlist, getpid)
                              ELSE {}
               IN \E failed \in SUBSET targets :
                     startup' = [startup EXCEPT
                                    !.steps = Append(@, "apoptosis"),
                                    !.killed = targets,
                                    !.logged = (failed # {} /\ ~esrch)]
    /\ pc' = "fork"
    /\ UNCHANGED <<now, termination_pending, reload_requested, RUNAGENT_SOCKET_DIR,
                   runagent_socket, sock_file, pid_writes, exit_code, policy,
                   execd_config, exec_config, ONCE, sr, ctx, validated_at,
                   last_validated_at, hrs, children, parent_fds, trace, decision,
                   term, ret, db, tasks, sun, handle, inst>>

\* lines 750-760: with NO_FORK unset the process forks; the parent, and the
\* process whose fork() failed, call _exit(EXIT_SUCCESS); the child goes on
\* as the daemon.  --once sets NO_FORK, line 316
Daemonize ==
    /\ pc = "fork"
    /\ \E NO_FORK \in (IF ONCE THEN {TRUE} ELSE BOOLEAN), fork \in {-1, 0} :
          IF NO_FORK
          THEN /\ pc' = "write_pid"
               /\ UNCHANGED <<startup, exit_code>>
          ELSE IF fork # 0
               THEN /\ pc' = "forked_exit"
                    /\ exit_code' = 0
                    /\ UNCHANGED startup
               ELSE /\ pc' = "write_pid"
                    /\ startup' = [startup EXCEPT !.steps = Append(@, "fork")]
                    /\ UNCHANGED exit_code
    /\ UNCHANGED <<now, termination_pending, reload_requested, RUNAGENT_SOCKET_DIR,
                   runagent_socket, sock_file, pid_writes, policy, execd_config,
                   exec_config, ONCE, sr, ctx, validated_at, last_validated_at, hrs,
                   children, parent_fds, trace, decision, term, ret, db, tasks, sun,
                   handle, inst>>

\* line 771: WritePID("cf-execd.pid")
WritePID ==
    /\ pc = "write_pid"
    /\ pid_writes' = pid_writes + 1
    /\ startup' = [startup EXCEPT !.steps = Append(@, "pid")]
    /\ pc' = "signals"
    /\ UNCHANGED <<now, termination_pending, reload_requested, RUNAGENT_SOCKET_DIR,
                   runagent_socket, sock_file, exit_code, policy, execd_config,
                   exec_config, ONCE, sr, ctx, validated_at, last_validated_at, hrs,
                   children, parent_fds, trace, decision, term, ret, db, tasks, sun,
                   handle, inst>>

\* lines 772-780: the signal handlers are installed, SIGPIPE is ignored
InstallSignalHandlers ==
    /\ pc = "signals"
    /\ startup' = [startup EXCEPT !.steps = Append(@, "signals")]
    /\ pc' = "setup_socket"
    /\ UNCHANGED <<now, termination_pending, reload_requested, RUNAGENT_SOCKET_DIR,
                   runagent_socket, sock_file, pid_writes, exit_code, policy,
                   execd_config, exec_config, ONCE, sr, ctx, validated_at,
                   last_validated_at, hrs, children, parent_fds, trace, decision,
                   term, ret, db, tasks, sun, handle, inst>>

\* lines 791-799 without the test of ONCE: the loop is entered in every case
AfterSetup_AlwaysLoop == "loop_top"

\* lines 791-799: LocalExec with --once, CFExecdMainLoop without
AfterSetup == IF ONCE THEN "once_exec" ELSE "loop_top"

\* MakeParentDirectory and lines 624-635: a missing directory is made, unless
\* that fails, and then given mode 0750; one that is there is left as it is
MakeParentDirectory(dir, made) ==
    IF dir = "absent" /\ made THEN "0750" ELSE dir

\* lines 782-789 and SetupRunagentSocket, lines 614-647: with a path that fits
\* the parent directory is made, what is left at the endpoint path is unlinked
\* and the socket created; assert(runagent_socket >= 0) ends a build without
\* NDEBUG when socket() fails.  Without a socket the error is logged and -1 is
\* returned
SetupRunagentSocket ==
    /\ pc = "setup_socket"
    /\ IF UsingRunagentSocket
       THEN IF GetRunagentSocketInfo
            THEN \E made \in BOOLEAN, socket_ok \in BOOLEAN, NDEBUG \in BOOLEAN :
                    /\ sock_file' = Unlink(sock_file)
                    /\ startup' = [startup EXCEPT
                           !.steps = Append(@, "unlink"),
                           !.dir = MakeParentDirectory(@, made),
                           !.created = (startup.dir = "absent" /\ made),
                           !.log = IF socket_ok \/ ~NDEBUG THEN @ ELSE @ \cup {"socket"}]
                    /\ IF socket_ok
                       THEN pc' = "bind" /\ UNCHANGED exit_code
                       ELSE IF NDEBUG
                            THEN pc' = AfterSetup /\ UNCHANGED exit_code
                            ELSE pc' = "aborted" /\ exit_code' = ABORTED
            ELSE /\ startup' = [startup EXCEPT !.log = @ \cup {"socket"}]
                 /\ pc' = AfterSetup
                 /\ UNCHANGED <<sock_file, exit_code>>
       ELSE /\ pc' = AfterSetup
            /\ UNCHANGED <<sock_file, startup, exit_code>>
    /\ UNCHANGED <<now, termination_pending, reload_requested, RUNAGENT_SOCKET_DIR,
                   runagent_socket, pid_writes, policy, execd_config,
                   exec_config, ONCE, sr, ctx, validated_at, last_validated_at, hrs,
                   children, parent_fds, trace, decision, term, ret, db, tasks, sun,
                   handle, inst>>

\* SetupRunagentSocket, lines 648-682: bind() fails when a file is at the path
\* (EADDRINUSE), when the directory is missing or for another reason, listen()
\* may fail; either failure is logged, the socket closed and -1 returned, but
\* assert(ret == 0), lines 651 and 661, ends a build without NDEBUG.  The ACLs
\* of lines 669-679 do not change what is returned
BindAndListen ==
    /\ pc = "bind"
    /\ \E bind_ok \in BOOLEAN, listening \in BOOLEAN, NDEBUG \in BOOLEAN :
          LET bound == bind_ok /\ ~sock_file /\ startup.dir # "absent"
              failed == IF ~bound THEN {"bind"} ELSE IF ~listening THEN {"listen"} ELSE {}
          IN /\ sock_file' = (sock_file \/ bound)
             /\ runagent_socket' = IF failed = {} THEN LISTEN_FD ELSE -1
             /\ IF failed # {} /\ ~NDEBUG
                THEN /\ pc' = "aborted"
                     /\ exit_code' = ABORTED
                     /\ startup' = [startup EXCEPT !.steps = Append(@, "bind")]
                ELSE /\ pc' = AfterSetup
                     /\ UNCHANGED exit_code
                     /\ startup' = [startup EXCEPT !.steps = Append(@, "bind"),
                                                    !.log = @ \cup failed]
    /\ UNCHANGED <<now, termination_pending, reload_requested, RUNAGENT_SOCKET_DIR,
                   pid_writes, policy, execd_config, exec_config, ONCE, sr,
                   ctx, validated_at, last_validated_at, hrs, children, parent_fds,
                   trace, decision, term, ret, db, tasks, sun, handle, inst>>

\* lines 791-795 and 800, main, lines 211-217: with --once the agent is run
\* once, the policy, the context and the configs are destroyed and main returns 0
RunOnce ==
    /\ pc = "once_exec"
    /\ policy' = "NULL"
    /\ ctx' = {}
    /\ execd_config' = Destroyed
    /\ exec_config' = "destroyed"
    /\ exit_code' = 0
    /\ startup' = [startup EXCEPT !.steps = Append(@, "local_exec")]
    /\ pc' = "once_done"
    /\ UNCHANGED <<now, termination_pending, reload_requested, RUNAGENT_SOCKET_DIR,
                   runagent_socket, sock_file, pid_writes, ONCE, sr,
                   validated_at, last_validated_at, hrs, children, parent_fds, trace,
                   decision, term, ret, db, tasks, sun, handle, inst>>

StartServer ==
    \/ Apoptosis
    \/ Daemonize
    \/ WritePID
    \/ InstallSignalHandlers
    \/ SetupRunagentSocket
    \/ BindAndListen
    \/ RunOnce

(* ---- HandleRequestsOrSleep, lines 444-525 ---- *)

\* mutant: the result of the splay sleep is ignored
SplayBreaks_Never(terminate) == FALSE

\* line 544: if (terminate) break;
SplayBreaks(terminate) == terminate

\* line 559: if (terminate) break;
PulseBreaks(terminate) == terminate

\* mutant: after the splay sleep the loop continues with its next iteration
AfterHRS_SplayContinues(reason, terminate) ==
    IF terminate THEN "shutdown" ELSE "loop_top"

\* where the caller of HandleRequestsOrSleep continues, lines 542-562
AfterHRS(reason, terminate) ==
    IF reason = "splay"
    THEN IF SplayBreaks(terminate) THEN "shutdown" ELSE "launch"
    ELSE IF PulseBreaks(terminate) THEN "shutdown" ELSE "loop_top"

\* what leaving the loop changes
ExitVars == <<sock_file, exit_code, policy, execd_config, exec_config, ctx>>

\* lines 565-573: the endpoint file is unlinked; StartServer line 800 and main,
\* lines 212-217: policy, context and configs are destroyed and main returns 0
Shutdown ==
    /\ sock_file' = IF UsingRunagentSocket /\ GetRunagentSocketInfo THEN FALSE ELSE sock_file
    /\ policy' = "NULL"
    /\ ctx' = {}
    /\ execd_config' = Destroyed
    /\ exec_config' = "destroyed"
    /\ exit_code' = 0

\* the loop goes on at `next`, or is left through the break of line 546 or 561
\* or its condition, line 532, and the process runs to its end
Continue(next) ==
    IF next = "shutdown"
    THEN /\ Shutdown
         /\ pc' = "done"
    ELSE /\ pc' = next
         /\ UNCHANGED ExitVars

\* the call returns `terminate`, t seconds after it was entered, its last step
\* having logged `errors`
ReturnLogged(terminate, t, errors) ==
    /\ Continue(AfterHRS(hrs.reason, terminate))
    /\ ret' = [reason |-> hrs.reason, terminate |-> terminate, at |-> t,
               seconds |-> hrs.seconds, wakes |-> hrs.wakes, log |-> errors]
    /\ hrs' = NoHRS
    /\ now' = 0

Return(terminate, t) == ReturnLogged(terminate, t, {})

\* lines 517-524: the check after the sleep
FinalCheck(pending, t) == Return(pending, t)

\* mutant: a sliding deadline, the wait restarts after every wakeup
Remaining_Sliding(seconds, t, sleep_started) == seconds

\* line 508 as remaining.tv_sec = 0: the wait ends at the first wakeup, as
\* sleep() does
Remaining_EndsAtWakeup(seconds, t, sleep_started) == 0

\* line 508
Remaining(seconds, t, sleep_started) == MAX(0, seconds - (t - sleep_started))

\* line 458 as a do-while: select() is called before the time left is tested
WhileRemaining_DoWhile(rem) == TRUE

\* line 458: while (remaining.tv_sec != 0)
WhileRemaining(rem) == rem # 0

\* line 458: while (remaining.tv_sec != 0), then lines 517-524
LoopOrFinalLogged(rem, pending, t, errors) ==
    IF WhileRemaining(rem)
    THEN /\ Continue("hrs_select")
         /\ hrs' = [hrs EXCEPT !.remaining = rem,
                               !.wakes = IF pc = "hrs_accept" THEN @ ELSE @ + 1,
                               !.log = errors]
         /\ now' = t
         /\ ret' = ret
    ELSE ReturnLogged(pending, t, errors)

LoopOrFinal(rem, pending, t) == LoopOrFinalLogged(rem, pending, t, {})

\* seconds after which a connection or a signal ends select() or sleep() early
EarlyDelays(rem) == {d \in 0..(rem - 1) : d <= MaxDelay \/ d = rem - 1}

\* lines 447-458 and 512-515: the entry check and the start of the wait
HRSEntry ==
    /\ pc = "hrs_entry"
    /\ IF IsPendingTermination
       THEN Return(TRUE, now)
       ELSE IF runagent_socket >= 0
            THEN IF WhileRemaining(hrs.seconds)
                 THEN /\ Continue("hrs_select")
                      /\ hrs' = [hrs EXCEPT !.sleep_started = now, !.remaining = hrs.seconds]
                      /\ UNCHANGED <<now, ret>>
                 ELSE FinalCheck(termination_pending, now)
            ELSE /\ Continue("hrs_sleep")
                 /\ UNCHANGED <<now, hrs, ret>>
    /\ UNCHANGED <<termination_pending, reload_requested, RUNAGENT_SOCKET_DIR,
                   runagent_socket, pid_writes, validated_at, last_validated_at,
                   children, parent_fds, trace, decision, term, sr, ONCE, startup, db,
                   tasks, sun, handle, inst>>

\* lines 464-470: select() fails with an error other than EINTR; the error is
\* logged and select() is called again with `remaining` as it is
SelectError ==
    /\ pc = "hrs_select"
    /\ hrs' = [hrs EXCEPT !.log = {"select"}]
    /\ UNCHANGED <<pc, now, termination_pending, reload_requested, RUNAGENT_SOCKET_DIR,
                   runagent_socket, sock_file, pid_writes, exit_code, policy,
                   execd_config, exec_config, ctx, validated_at, last_validated_at,
                   children, parent_fds, trace, decision, term, ret, sr, ONCE, startup,
                   db, tasks, sun, handle, inst>>

\* lines 471-475: select() returns 0
SelectTimeout ==
    /\ pc = "hrs_select"
    /\ FinalCheck(termination_pending, now + hrs.remaining)
    /\ UNCHANGED <<termination_pending, reload_requested, RUNAGENT_SOCKET_DIR,
                   runagent_socket, pid_writes, validated_at, last_validated_at,
                   children, parent_fds, trace, decision, term, sr, ONCE, startup, db,
                   tasks, sun, handle, inst>>

\* lines 476-489: a connection makes the socket readable after d seconds
SelectReady ==
    /\ pc = "hrs_select"
    /\ hrs.wakes < MaxWakes
    /\ \E d \in EarlyDelays(hrs.remaining) :
          IF IsPendingTermination
          THEN Return(TRUE, now + d)
          ELSE /\ Continue("hrs_accept")
               /\ hrs' = [hrs EXCEPT !.wakes = @ + 1, !.log = {}]
               /\ now' = now + d
               /\ ret' = ret
    /\ UNCHANGED <<termination_pending, reload_requested, RUNAGENT_SOCKET_DIR,
                   runagent_socket, pid_writes, validated_at, last_validated_at,
                   children, parent_fds, trace, decision, term, sr, ONCE, startup, db,
                   tasks, sun, handle, inst>>

\* lines 476-485 and 508: a signal interrupts select() after d seconds (EINTR)
SelectInterrupted ==
    /\ pc = "hrs_select"
    /\ hrs.wakes < MaxWakes
    /\ \E d \in EarlyDelays(hrs.remaining), sig \in {"TERM", "HUP"} :
          /\ termination_pending' = (termination_pending \/ sig = "TERM")
          /\ reload_requested' = (reload_requested \/ sig = "HUP")
          /\ term' = IF sig = "TERM" THEN Terminated(now + d) ELSE term
          /\ IF termination_pending'
             THEN Return(TRUE, now + d)
             ELSE LoopOrFinal(Remaining(hrs.seconds, now + d, hrs.sleep_started),
                              FALSE, now + d)
    /\ UNCHANGED <<RUNAGENT_SOCKET_DIR, runagent_socket, pid_writes, validated_at,
                   last_validated_at, children, parent_fds, trace, decision, sr, ONCE,
                   startup, db, tasks, sun, handle, inst>>

\* lowest free slot of the process table
FreeSlot == CHOOSE s \in Slots : children[s].kind = "none" /\ \A r \in 1..(s - 1) : children[r].kind # "none"
CanFork == \E s \in Slots : children[s].kind = "none"

\* the process fork() creates: a copy of the daemon, SIGPIPE ignored as in the
\* parent (line 776), that continues at `at`
Forked(kind, at) ==
    [kind |-> kind, pc |-> at, sigpipe |-> "SIG_IGN", status |-> "running",
     config |-> exec_config]

\* the children are told apart by what they do, not by their place in the process
\* table: the table is kept in this order, free slots last
ChildRank(c) ==
    CASE c.kind = "none" -> 9
      [] c.pc = "h_start" -> 1
      [] c.pc = "h_handle" -> 2
      [] c.pc = "a_exec" -> 3
      [] c.pc = "exited" /\ c.kind = "handler" /\ c.status = "EXIT_SUCCESS" -> 4
      [] c.pc = "exited" /\ c.kind = "handler" -> 5
      [] c.pc = "exited" -> 6
      [] OTHER -> 7
ProcessTable(ch) == SortSeq(ch, LAMBDA a, b : ChildRank(a) < ChildRank(b))

\* lines 499-505: what the parent does with data_socket after fork()
ParentFdsAfterFork(fds, accepted) == IF accepted THEN fds + 1 ELSE fds

\* lines 499-504 without the branch pid == -1: a failed fork is passed over
LogForkFailure_Silent(forked) == {}

\* lines 490 and 499-504: a failed fork() is logged; the result of accept() is
\* not tested, so a failed accept() is not
LogForkFailure(forked) == IF forked THEN {} ELSE {"fork"}

\* lines 490-508: accept(), fork() of the handler, and the new remaining time
AcceptAndFork ==
    /\ pc = "hrs_accept"
    /\ \E accepted \in BOOLEAN, forked \in BOOLEAN, a \in 0..MaxService :
          /\ accepted => parent_fds < MaxFds
          /\ forked => CanFork
          /\ parent_fds' = ParentFdsAfterFork(parent_fds, accepted)
          /\ children' = IF forked
                         THEN ProcessTable([children EXCEPT ![FreeSlot] =
                                               Forked("handler", "h_start")])
                         ELSE children
          /\ LoopOrFinalLogged(Remaining(hrs.seconds, now + a, hrs.sleep_started),
                               termination_pending, now + a, LogForkFailure(forked))
    /\ UNCHANGED <<termination_pending, reload_requested, RUNAGENT_SOCKET_DIR,
                   runagent_socket, pid_writes, validated_at, last_validated_at,
                   trace, decision, term, sr, ONCE, startup, db, tasks, sun, handle,
                   inst>>

\* lines 512-524: sleep(seconds) runs to its end
SleepFull ==
    /\ pc = "hrs_sleep"
    /\ FinalCheck(termination_pending, now + hrs.seconds)
    /\ UNCHANGED <<termination_pending, reload_requested, RUNAGENT_SOCKET_DIR,
                   runagent_socket, pid_writes, validated_at, last_validated_at,
                   children, parent_fds, trace, decision, term, sr, ONCE, startup, db,
                   tasks, sun, handle, inst>>

\* lines 512-524: a signal handler runs during sleep(seconds), which returns early
SleepInterrupted ==
    /\ pc = "hrs_sleep"
    /\ \E d \in EarlyDelays(hrs.seconds), sig \in {"TERM", "HUP"} :
          /\ termination_pending' = (termination_pending \/ sig = "TERM")
          /\ reload_requested' = (reload_requested \/ sig = "HUP")
          /\ term' = IF sig = "TERM" THEN Terminated(now + d) ELSE term
          /\ FinalCheck(termination_pending', now + d)
    /\ UNCHANGED <<RUNAGENT_SOCKET_DIR, runagent_socket, pid_writes, validated_at,
                   last_validated_at, children, parent_fds, trace, decision, sr, ONCE,
                   startup, db, tasks, sun, handle, inst>>

(* ---- CFExecdMainLoop, lines 527-574 ---- *)

\* line 532: while (!IsPendingTermination())
LoopTop ==
    /\ pc = "loop_top"
    /\ IF IsPendingTermination
       THEN /\ Continue("shutdown")
            /\ UNCHANGED <<trace, decision, ret>>
       ELSE /\ Continue("reap")
            /\ trace' = <<>>
            /\ decision' = "none"
            /\ ret' = NoRet
    /\ startup' = NoStartup
    /\ UNCHANGED <<now, termination_pending, reload_requested, RUNAGENT_SOCKET_DIR,
                   runagent_socket, pid_writes, validated_at, last_validated_at, hrs,
                   children, parent_fds, term, sr, ONCE, db, tasks, sun, handle, inst>>

\* line 535 with waitpid given the pid of the agent run: handlers are not collected
Reapable_AgentsOnly(c) == c.pc = "exited" /\ c.kind = "agent"

\* what waitpid(-1, NULL, WNOHANG) collects, line 535
Reapable(c) == c.pc = "exited"

\* mutant: waitpid without WNOHANG
WaitpidBlocksOn_Running(c) == c.pc \notin {"none", "exited"}

\* whether waitpid(-1, NULL, WNOHANG), line 535, suspends the daemon while child c runs
WaitpidBlocksOn(c) == FALSE

\* lines 534-538: reap the children that have exited
Reap ==
    /\ pc = "reap"
    /\ \A s \in Slots : ~WaitpidBlocksOn(children[s])
    /\ children' = ProcessTable([s \in Slots |-> IF Reapable(children[s]) THEN NoChild
                                                  ELSE children[s]])
    /\ trace' = Append(trace, "reap")
    /\ pc' = "check"
    /\ UNCHANGED <<now, termination_pending, reload_requested, RUNAGENT_SOCKET_DIR,
                   runagent_socket, sock_file, pid_writes, exit_code, policy,
                   execd_config, ctx, validated_at, last_validated_at, hrs,
                   parent_fds, decision, term, ret, exec_config, sr, ONCE, startup, db,
                   tasks, sun, handle, inst>>

\* lines 924-932 without the test of line 929: only a new timestamp starts a reload
ReloadTrigger_TimestampOnly(last, validated, requested) == last < validated

\* lines 922-932: reload_config
ReloadTrigger(last, validated, requested) == last < validated \/ requested

\* lines 942-955 without the test of line 942: a triggered reload is always full
ReloadKind_IgnoreValidation(valid) == "full_begin"

\* lines 942-955: RELOAD_FULL when the promises are valid, RELOAD_ENVIRONMENT otherwise
ReloadKind(valid) == IF valid THEN "full_begin" ELSE "env_reload"

\* lines 935-940 with the request kept until the validation is over
ClearedBeforeValidation_After == FALSE

\* lines 937-942: ClearRequestReloadConfig is called before GenericAgentArePromisesValid
ClearedBeforeValidation == TRUE

\* the objects a full reload replaces
Triple == [policy |-> policy, execd_config |-> execd_config, exec_config |-> exec_config]

\* CheckNewPromises, lines 918-933: the timestamp on disk and the reload request
\* are read; sr.old remembers the objects ScheduleRun was called with
CheckNewPromises ==
    /\ pc = "check"
    /\ sr' = [NoSR EXCEPT !.validated_at = validated_at,
                          !.stale = last_validated_at < validated_at,
                          !.requested = ReloadConfigRequested,
                          !.old = Triple]
    /\ pc' = IF ReloadTrigger(last_validated_at, validated_at, ReloadConfigRequested)
             THEN "check_clear" ELSE "env_reload"
    /\ trace' = Append(trace, "check")
    /\ UNCHANGED <<now, termination_pending, reload_requested, RUNAGENT_SOCKET_DIR,
                   runagent_socket, sock_file, pid_writes, exit_code, policy,
                   execd_config, exec_config, ctx, validated_at, last_validated_at,
                   hrs, children, parent_fds, decision, term, ret, ONCE, startup, db,
                   tasks, sun, handle, inst>>

\* line 940 left out: the timestamp is not taken over before the validation
LastValidatedAt_Kept(last, validated) == last

\* line 940: config->agent_specific.daemon.last_validated_at = validated_at
LastValidatedAt(last, validated) == validated

\* CheckNewPromises, lines 935-940: the request is cleared and the timestamp kept
ClearRequestReloadConfig ==
    /\ pc = "check_clear"
    /\ reload_requested' = IF ClearedBeforeValidation THEN FALSE ELSE reload_requested
    /\ last_validated_at' = LastValidatedAt(last_validated_at, sr.validated_at)
    /\ pc' = "check_valid"
    /\ UNCHANGED <<now, termination_pending, RUNAGENT_SOCKET_DIR, runagent_socket,
                   sock_file, pid_writes, exit_code, policy, execd_config, exec_config,
                   sr, ctx, validated_at, hrs, children, parent_fds, trace, decision,
                   term, ret, ONCE, startup, db, tasks, sun, handle, inst>>

\* CheckNewPromises, lines 942-956; `valid` is GenericAgentArePromisesValid's answer
ArePromisesValid ==
    /\ pc = "check_valid"
    /\ \E valid \in BOOLEAN :
          /\ sr' = [sr EXCEPT !.valid = IF valid THEN "yes" ELSE "no"]
          /\ pc' = ReloadKind(valid)
    /\ reload_requested' = IF ClearedBeforeValidation THEN reload_requested ELSE FALSE
    /\ UNCHANGED <<now, termination_pending, RUNAGENT_SOCKET_DIR, runagent_socket,
                   sock_file, pid_writes, exit_code, policy, execd_config, exec_config,
                   ctx, validated_at, last_validated_at, hrs, children, parent_fds,
                   trace, decision, term, ret, ONCE, startup, db, tasks, sun, handle,
                   inst>>

\* lines 976-977 with the old policy kept until the new one is loaded
PolicyDestroy_Kept == "loaded"

\* lines 976-977: PolicyDestroy(*policy); *policy = NULL
PolicyDestroy == "NULL"

\* ScheduleRun, lines 966-1000: the context is cleared, the policy destroyed,
\* the environment rediscovered, the time classes updated and the allow list of
\* the old config taken over
FullReloadBegin ==
    /\ pc = "full_begin"
    /\ policy' = PolicyDestroy
    /\ ctx' \in Contexts
    /\ IF UsingRunagentSocket
       THEN /\ sr' = [NoSR EXCEPT !.old_runagent_allow_users =
                                       execd_config.runagent_allow_users]
            /\ execd_config' = [execd_config EXCEPT !.runagent_allow_users = NullSet]
       ELSE /\ sr' = NoSR
            /\ UNCHANGED execd_config
    /\ trace' = trace \o <<"reload_begin", "timeclasses">>
    /\ pc' = "full_load"
    /\ UNCHANGED <<now, termination_pending, reload_requested, RUNAGENT_SOCKET_DIR,
                   runagent_socket, sock_file, pid_writes, exit_code, exec_config,
                   validated_at, last_validated_at, hrs, children, parent_fds,
                   decision, term, ret, ONCE, startup, db, tasks, sun, handle, inst>>

\* ScheduleRun, line 1002: LoadPolicy returns the new policy, or NULL as
\* SelectAndLoadPolicy does at main, line 188.  With *policy = NULL lines
\* 1003-1006 destroy both configs and ExecConfigNew reads through the null
\* pointer: the process does not get past line 1006
LoadPolicy ==
    /\ pc = "full_load"
    /\ \E loaded \in BOOLEAN :
          IF loaded
          THEN /\ policy' = "loaded"
               /\ pc' = "full_destroy"
               /\ UNCHANGED <<execd_config, exec_config>>
          ELSE /\ policy' = "NULL"
               /\ exec_config' = "destroyed"
               /\ execd_config' = Destroyed
               /\ pc' = "crashed"
    /\ trace' = Append(trace, "reload_load")
    /\ UNCHANGED <<now, termination_pending, reload_requested, RUNAGENT_SOCKET_DIR,
                   runagent_socket, sock_file, pid_writes, exit_code, sr, ctx,
                   validated_at, last_validated_at, hrs, children, parent_fds,
                   decision, term, ret, ONCE, startup, db, tasks, sun, handle, inst>>

\* ScheduleRun, lines 1003-1004: both configs are destroyed
FullReloadDestroy ==
    /\ pc = "full_destroy"
    /\ exec_config' = "destroyed"
    /\ execd_config' = Destroyed
    /\ pc' = "full_new"
    /\ UNCHANGED <<now, termination_pending, reload_requested, RUNAGENT_SOCKET_DIR,
                   runagent_socket, sock_file, pid_writes, exit_code, policy, sr, ctx,
                   validated_at, last_validated_at, hrs, children, parent_fds, trace,
                   decision, term, ret, ONCE, startup, db, tasks, sun, handle, inst>>

\* line 1013 with the comparison left out: the ACLs are set on every full reload
StringSetIsEqual_Never(a, b) == FALSE

\* line 1013: StringSetIsEqual(old_runagent_allow_users, new runagent_allow_users)
StringSetIsEqual(a, b) == a = b

\* ScheduleRun, lines 1006-1038: both configs are built from the loaded policy
\* and the ACLs of the endpoint are set again when the allow list changed
FullReloadNew ==
    /\ pc = "full_new"
    /\ exec_config' = "built"
    /\ execd_config' \in ExecdConfigs
    /\ IF UsingRunagentSocket
          /\ ~StringSetIsEqual(sr.old_runagent_allow_users,
                               execd_config'.runagent_allow_users)
          /\ GetRunagentSocketInfo
       THEN \E success \in BOOLEAN :
               sr' = [sr EXCEPT !.acl = [called |-> TRUE,
                                        allow_users |->
                                            execd_config'.runagent_allow_users,
                                        success |-> success]]
       ELSE sr' = sr
    /\ pc' = "decide"
    /\ UNCHANGED <<now, termination_pending, reload_requested, RUNAGENT_SOCKET_DIR,
                   runagent_socket, sock_file, pid_writes, exit_code, policy, ctx,
                   validated_at, last_validated_at, hrs, children, parent_fds, trace,
                   decision, term, ret, ONCE, startup, db, tasks, sun, handle, inst>>

\* ScheduleRun, lines 1040-1050: environment reload
EnvironmentReload ==
    /\ pc = "env_reload"
    /\ ctx' \in Contexts
    /\ sr' = [NoSR EXCEPT !.old = sr.old]
    /\ trace' = Append(trace, "timeclasses")
    /\ pc' = "decide"
    /\ UNCHANGED <<now, termination_pending, reload_requested, RUNAGENT_SOCKET_DIR,
                   runagent_socket, sock_file, pid_writes, exit_code, policy,
                   execd_config, exec_config, validated_at, last_validated_at, hrs,
                   children, parent_fds, decision, term, ret, ONCE, startup, db, tasks,
                   sun, handle, inst>>

\* eval_context.c (not part of src/): modelled from the spec, section 3
IsDefinedClass(context, class) == class \in context

\* the order in which StringSetIteratorNext hands out the members of a set
RECURSIVE StringSetIterator(_)
StringSetIterator(set) ==
    IF set = {}
    THEN <<>>
    ELSE LET first == CHOOSE x \in set : TRUE
         IN <<first>> \o StringSetIterator(set \ {first})

\* mutant: only the first member of the schedule is tested
ScheduleLoop_FirstOnly(it, context) == it # <<>> /\ IsDefinedClass(context, Head(it))

\* ScheduleRun, lines 1052-1066: true at the first member that is defined
RECURSIVE ScheduleLoop(_, _)
ScheduleLoop(it, context) ==
    IF it = <<>>
    THEN FALSE
    ELSE IF IsDefinedClass(context, Head(it))
         THEN TRUE
         ELSE ScheduleLoop(Tail(it), context)

\* the schedule ScheduleRun iterates, line 1053
ScheduleOf(config) == config.schedule

\* a call of HandleRequestsOrSleep(seconds, reason, ...)
Call(reason, seconds) ==
    [reason |-> reason, seconds |-> seconds, sleep_started |-> 0, remaining |-> 0,
     wakes |-> 0, log |-> {}]

\* mutant: the splay sleep and the launch do not depend on the decision
SleepAfterDecision_AlwaysSplay(run, config) == Call("splay", config.splay_time)

\* CFExecdMainLoop, lines 540-543 and 557: the sleep that follows the decision
SleepAfterDecision(run, config) ==
    IF run
    THEN Call("splay", config.splay_time)
    ELSE Call("pulse", CFPULSETIME)

\* ScheduleRun's return, lines 1052-1066, and CFExecdMainLoop, lines 540-543, 557
ScheduleRun ==
    /\ pc = "decide"
    /\ LET run == ScheduleLoop(StringSetIterator(ScheduleOf(execd_config)), ctx)
       IN /\ decision' = IF run THEN "true" ELSE "false"
          /\ hrs' = SleepAfterDecision(run, execd_config)
          /\ trace' = trace \o <<"decide", hrs'.reason>>
    /\ now' = 0
    /\ ret' = NoRet
    /\ sr' = NoSR
    /\ pc' = "hrs_entry"
    /\ UNCHANGED <<termination_pending, reload_requested, RUNAGENT_SOCKET_DIR,
                   runagent_socket, sock_file, pid_writes, exit_code, policy,
                   execd_config, exec_config, ctx, validated_at, last_validated_at,
                   children, parent_fds, term, ONCE, startup, db, tasks, sun, handle,
                   inst>>

\* lines 549-554 with the fallback left out: a failed fork skips the run
AfterFork_NoFallback(child_pid) == "hrs_entry"

\* lines 549-554: a negative child_pid makes the daemon run the agent itself
AfterFork(child_pid) == IF child_pid < 0 THEN "inline_exec" ELSE "hrs_entry"

\* the pulse sleep of line 556 is entered
EnterPulse ==
    /\ now' = 0
    /\ hrs' = Call("pulse", CFPULSETIME)
    /\ ret' = NoRet

\* line 548 and LocalExecInFork, lines 806-829: the agent runs in a forked
\* child and the pulse sleep is entered, or fork() fails and -1 is returned
LocalExecInFork ==
    /\ pc = "launch"
    /\ \E child_pid \in {-1, 1} :
          /\ child_pid > 0 => CanFork
          /\ children' = IF child_pid > 0
                         THEN ProcessTable([children EXCEPT ![FreeSlot] =
                                               Forked("agent", "a_exec")])
                         ELSE children
          /\ pc' = AfterFork(child_pid)
          /\ IF pc' = "hrs_entry"
             THEN /\ trace' = trace \o (IF child_pid > 0 THEN <<"launch">>
                                        ELSE <<"fork_failed">>) \o <<"pulse">>
                  /\ EnterPulse
             ELSE /\ trace' = Append(trace, "fork_failed")
                  /\ UNCHANGED <<now, hrs, ret>>
    /\ UNCHANGED <<termination_pending, reload_requested, RUNAGENT_SOCKET_DIR,
                   runagent_socket, sock_file, pid_writes, exit_code, policy,
                   execd_config, ctx, validated_at, last_validated_at, parent_fds,
                   decision, term, exec_config, sr, ONCE, startup, db, tasks, sun,
                   handle, inst>>

\* lines 551-556: LocalExec runs in the daemon itself and returns; then the
\* pulse sleep is entered
LocalExecInline ==
    /\ pc = "inline_exec"
    /\ trace' = trace \o <<"launch", "pulse">>
    /\ EnterPulse
    /\ pc' = "hrs_entry"
    /\ UNCHANGED <<termination_pending, reload_requested, RUNAGENT_SOCKET_DIR,
                   runagent_socket, sock_file, pid_writes, exit_code, policy,
                   execd_config, ctx, validated_at, last_validated_at, children,
                   parent_fds, decision, term, exec_config, sr, ONCE, startup, db,
                   tasks, sun, handle, inst>>

(* ---- the forked children ---- *)

\* line 495: signal(SIGPIPE, SIG_DFL)
HandlerStart(s) ==
    /\ children[s].kind = "handler"
    /\ children[s].pc = "h_start"
    /\ children' = ProcessTable([children EXCEPT ![s].sigpipe = "SIG_DFL",
                                                 ![s].pc = "h_handle"])
    /\ UNCHANGED <<pc, now, termination_pending, reload_requested, RUNAGENT_SOCKET_DIR,
                   runagent_socket, sock_file, pid_writes, exit_code, policy,
                   execd_config, ctx, validated_at, last_validated_at, hrs,
                   parent_fds, trace, decision, term, ret, exec_config, sr, ONCE,
                   startup, db, tasks, sun, handle, inst>>

\* mutant: without _exit the child goes on in the parent's loop
HandlerAfterRequest_Returns == "hrs_select"

\* line 497: where the handler continues when HandleRunagentRequest has returned
HandlerAfterRequest == "exited"

\* line 497: the status the handler exits with, by the outcome of the request
HandlerExitStatus(outcome) == "EXIT_SUCCESS"

\* lines 496-497: HandleRunagentRequest returns, having served the request or
\* failed, and the child calls _exit(EXIT_SUCCESS); or a signal (SIGPIPE has its
\* default disposition) kills the child while it handles the request
HandlerFinish(s) ==
    /\ children[s].kind = "handler"
    /\ children[s].pc = "h_handle"
    /\ \E outcome \in {"served", "failed", "killed"} :
          children' = ProcessTable([children EXCEPT
                          ![s].pc = IF outcome = "killed" THEN "exited"
                                                         ELSE HandlerAfterRequest,
                          ![s].status = IF outcome = "killed" THEN "SIGNALED"
                                                             ELSE HandlerExitStatus(outcome)])
    /\ UNCHANGED <<pc, now, termination_pending, reload_requested, RUNAGENT_SOCKET_DIR,
                   runagent_socket, sock_file, pid_writes, exit_code, policy,
                   execd_config, ctx, validated_at, last_validated_at, hrs,
                   parent_fds, trace, decision, term, ret, exec_config, sr, ONCE,
                   startup, db, tasks, sun, handle, inst>>

\* line 816: LocalExec(config) in the child reads the child's own copy
ConfigUsedBy(c) == c.config

\* LocalExecInFork, lines 817-823: the child runs LocalExec and calls _exit(0)
AgentFinish(s) ==
    /\ children[s].kind = "agent"
    /\ children[s].pc = "a_exec"
    /\ children' = ProcessTable([children EXCEPT
                                    ![s].pc = "exited",
                                    ![s].status = IF ConfigUsedBy(children[s]) = "built"
                                                  THEN "EXIT_SUCCESS"
                                                  ELSE "SIGNALED"])
    /\ UNCHANGED <<pc, now, termination_pending, reload_requested, RUNAGENT_SOCKET_DIR,
                   runagent_socket, sock_file, pid_writes, exit_code, policy,
                   execd_config, ctx, validated_at, last_validated_at, hrs,
                   parent_fds, trace, decision, term, ret, exec_config, sr, ONCE,
                   startup, db, tasks, sun, handle, inst>>

(* ---- the environment ---- *)

\* the daemon process has ended: main has returned (after the loop or after the
\* single run of --once), the process has called _exit at line 754 or
\* DoCleanupAndExit at line 191, or it has been killed at line 1006 or by a
\* failed assertion
ExitPcs == {"done", "once_done", "forked_exit", "crashed", "load_failed", "aborted"}
Exited == pc \in ExitPcs

\* positions at which the daemon runs with its signal handlers installed
Running == pc \notin {"main", "start", "fork", "write_pid", "signals"} \cup ExitPcs

\* signals.c, HandleSignalsForDaemon (not part of src/): SIGTERM sets
\* termination_pending, SIGHUP sets reload_requested
Signal ==
    /\ Running
    /\ \E sig \in {"TERM", "HUP"} :
          /\ sig = "TERM" => ~termination_pending
          /\ sig = "HUP" => ~reload_requested
          /\ termination_pending' = (termination_pending \/ sig = "TERM")
          /\ reload_requested' = (reload_requested \/ sig = "HUP")
          /\ term' = IF sig = "TERM" THEN Terminated(now) ELSE term
    /\ UNCHANGED <<pc, now, RUNAGENT_SOCKET_DIR, runagent_socket, sock_file, pid_writes,
                   exit_code, policy, execd_config, ctx, validated_at,
                   last_validated_at, hrs, children, parent_fds, trace,
                   decision, ret, exec_config, sr, ONCE, startup, db, tasks, sun,
                   handle, inst>>

\* a new policy is validated on disk: the timestamp CheckNewPromises reads advances
PolicyValidated ==
    /\ Running
    /\ validated_at < MaxStamp
    /\ validated_at' = validated_at + 1
    /\ UNCHANGED <<pc, now, termination_pending, reload_requested, RUNAGENT_SOCKET_DIR,
                   runagent_socket, sock_file, pid_writes, exit_code, policy,
                   execd_config, ctx, last_validated_at, hrs, children, parent_fds,
                   trace, decision, term, ret, exec_config, sr, ONCE, startup, db,
                   tasks, sun, handle, inst>>

HandleRequestsOrSleep ==
    \/ HRSEntry
    \/ SelectError
    \/ SelectTimeout
    \/ SelectReady
    \/ SelectInterrupted
    \/ AcceptAndFork
    \/ SleepFull
    \/ SleepInterrupted

CFExecdMainLoop ==
    \/ LoopTop
    \/ Reap
    \/ CheckNewPromises
    \/ ClearRequestReloadConfig
    \/ ArePromisesValid
    \/ FullReloadBegin
    \/ LoadPolicy
    \/ FullReloadDestroy
    \/ FullReloadNew
    \/ EnvironmentReload
    \/ ScheduleRun
    \/ HandleRequestsOrSleep
    \/ LocalExecInFork
    \/ LocalExecInline

Child ==
    \E s \in Slots : HandlerStart(s) \/ HandlerFinish(s) \/ AgentFinish(s)

Next ==
    \/ Main
    \/ StartServer
    \/ CFExecdMainLoop
    \/ Child
    \/ Signal
    \/ PolicyValidated

\* the steps of the daemon itself
Daemon == Main \/ StartServer \/ CFExecdMainLoop

Spec == Init /\ [][Next]_vars

(* ---- properties ---- *)

InTrace(step) == \E i \in 1..Len(trace) : trace[i] = step
Position(step) == CHOOSE i \in 1..Len(trace) : trace[i] = step
Count(step) == Len(SelectSeq(trace, LAMBDA e : e = step))
LastStep == IF trace = <<>> THEN "none" ELSE trace[Len(trace)]
InHRS == pc \in HRSPcs
\* termination_pending became set inside a HandleRequestsOrSleep(reason) call
TermDuring(reason) == term.reason = reason
\* termination_pending became set inside some HandleRequestsOrSleep call
TermInCall == term.reason # "none"

\* C1: the schedule decision of a tick is true iff some member of the current
\* execd_config->schedule is a class defined in the context rebuilt in that tick;
\* with an empty schedule it is never true and the agent is never launched.
C1_ScheduleSoundness ==
    pc # "done" =>
        /\ decision # "none" =>
              (decision = "true" <=> \E c \in execd_config.schedule : c \in ctx)
        /\ (pc = "launch" \/ InTrace("launch")) =>
              /\ decision = "true"
              /\ execd_config.schedule # {}

\* C1 witness: a tick decided to run because of the second of two schedule members,
\* and launched the agent
C1_Witness ==
    /\ decision = "true"
    /\ execd_config.schedule = {"Min00_05", "Min30_35"}
    /\ ctx = {"Min30_35"}
    /\ InTrace("launch")

\* the order of the steps of a tick as the spec states it: the reload is over
\* before the time classes are refreshed
StatedRank(step) ==
    CASE step = "reap" -> 1
      [] step \in {"check", "reload_begin", "reload_load"} -> 2
      [] step = "timeclasses" -> 3
      [] step = "decide" -> 4
      [] step = "splay" -> 5
      [] step = "fork_failed" -> 6
      [] step = "launch" -> 7
      [] step = "pulse" -> 8

\* the order of the steps of a tick with the time classes refreshed between the
\* destruction of the old policy and the load of the new one
TickRank(step) ==
    CASE step = "reap" -> 1
      [] step = "check" -> 2
      [] step = "reload_begin" -> 3
      [] step = "timeclasses" -> 4
      [] step = "reload_load" -> 5
      [] step = "decide" -> 6
      [] step = "splay" -> 7
      [] step = "fork_failed" -> 8
      [] step = "launch" -> 9
      [] step = "pulse" -> 10

\* the steps every tick takes before its pulse sleep
TickComplete ==
    InTrace("pulse") =>
        InTrace("reap") /\ InTrace("check") /\ InTrace("timeclasses") /\ InTrace("decide")

\* no step of the next tick before the pulse sleep of this one has returned
TicksDoNotOverlap ==
    /\ InTrace("pulse") => pc \in HRSPcs \cup {"loop_top", "shutdown", "done"}
    /\ (InTrace("pulse") /\ InHRS) => hrs.reason = "pulse"
    /\ pc = "loop_top" =>
          \/ trace = <<>>
          \/ LastStep = "pulse" /\ ret.reason = "pulse"

\* splay sleep and launch only in ticks whose decision was true
SplayOnlyWhenDecided ==
    (InTrace("splay") \/ InTrace("launch")) => decision = "true"

\* C2 as stated: within a tick the steps occur in the order reap, reload check
\* and reload, time-class refresh, decision, splay sleep, launch, pulse sleep;
\* ticks do not overlap; splay sleep and launch only after a true decision.
C2_StatedOrder ==
    /\ \A i \in 1..(Len(trace) - 1) : StatedRank(trace[i]) <= StatedRank(trace[i + 1])
    /\ TickComplete
    /\ TicksDoNotOverlap
    /\ SplayOnlyWhenDecided

\* C2 amended: within a tick the steps occur, each at most once, in the order
\* reap, reload check, (in a full reload) destruction of the old policy,
\* time-class refresh, (in a full reload) policy load and config rebuild, decision,
\* splay sleep, launch, pulse sleep; ticks do not overlap; splay sleep and launch
\* only after a true decision.
C2_TickOrder ==
    /\ \A i \in 1..(Len(trace) - 1) : TickRank(trace[i]) < TickRank(trace[i + 1])
    /\ TickComplete
    /\ TicksDoNotOverlap
    /\ SplayOnlyWhenDecided

\* C2 witness: a tick with a full reload, a splay sleep and a launch is in its pulse sleep
C2_Witness ==
    /\ trace = <<"reap", "check", "reload_begin", "timeclasses", "reload_load",
                 "decide", "splay", "launch", "pulse">>
    /\ pc = "hrs_select"

\* C3: per tick at most one launch, and a launch iff the decision was true and
\* the splay sleep did not report termination; after a false decision the next
\* suspension is the pulse sleep of CFPULSETIME seconds; after a true one the
\* splay sleep of splay_time seconds precedes the launch, which precedes the
\* pulse sleep.
C3_LaunchOncePerTick ==
    /\ Count("launch") <= 1
    /\ pc = "launch" =>
          decision = "true" /\ ret.reason = "splay" /\ ~ret.terminate /\ ~InTrace("launch")
    /\ InTrace("launch") => decision = "true"
    /\ InTrace("pulse") => (InTrace("launch") <=> decision = "true")
    /\ (ret.reason = "splay" /\ ret.terminate) => (pc # "launch" /\ ~InTrace("launch"))
    /\ decision = "false" =>
          /\ ~InTrace("splay") /\ ~InTrace("launch")
          /\ InHRS => (hrs.reason = "pulse" /\ hrs.seconds = CFPULSETIME)
    /\ decision = "true" =>
          /\ InTrace("splay")
          /\ (InHRS /\ hrs.reason = "splay") =>
                (hrs.seconds = execd_config.splay_time /\ ~InTrace("launch"))
          /\ InTrace("launch") => Position("splay") < Position("launch")
          /\ InTrace("pulse") =>
                (InTrace("launch") /\ Position("launch") < Position("pulse"))
    /\ (InHRS /\ hrs.reason = "pulse") => hrs.seconds = CFPULSETIME

\* C3 witness: a tick whose splay sleep of LongSplay seconds ran to its end has
\* launched the agent in a child and is in its pulse sleep
C3_Witness ==
    /\ decision = "true"
    /\ Count("launch") = 1
    /\ InHRS /\ hrs.reason = "pulse"
    /\ execd_config.splay_time = LongSplay
    /\ \E s \in Slots : children[s].kind = "agent"

\* C4: HandleRequestsOrSleep returns true without suspending when
\* termination_pending is set on entry, and returns true promptly (within the
\* time of the accept in service) when it becomes set while the call is in
\* progress.
C4_ReturnsPromptly ==
    ret.terminate =>
        IF TermInCall
        THEN ret.at - term.at <= MaxService
        ELSE ret.at = 0

\* C5: once termination_pending is set, the suspension in progress returns
\* within one pulse.
C5_ReturnsWithinPulse ==
    /\ (ret.terminate /\ TermInCall) => ret.at - term.at <= CFPULSETIME
    /\ (termination_pending /\ InHRS /\ TermInCall) => now - term.at <= CFPULSETIME

\* C6: a terminate signal during the splay sleep means no launch in that tick;
\* during a pulse sleep it means no step of a further tick; at exit the endpoint
\* file is unlinked, the PID file was written once and the exit code is 0.
C6_TerminationShortCircuits ==
    /\ TermDuring("splay") => (pc # "launch" /\ ~InTrace("launch"))
    /\ TermDuring("pulse") =>
          /\ pc \in HRSPcs \cup {"loop_top", "shutdown", "done"}
          /\ LastStep = "pulse"
          /\ InHRS => hrs.reason = "pulse"
    /\ pc = "done" =>
          /\ termination_pending
          /\ exit_code = 0
          /\ pid_writes = 1
          /\ (UsingRunagentSocket /\ GetRunagentSocketInfo) => ~sock_file

\* C6 witness: the daemon has exited after a terminate signal that arrived
\* during the splay sleep, with the endpoint file bound at startup
C6_Witness ==
    /\ pc = "done"
    /\ TermDuring("splay")
    /\ term.at > 0
    /\ runagent_socket >= 0

HandlerAlive == \E s \in Slots : children[s].kind = "handler"

\* C8: the parent never waits for a handler: with a handler running for ever or
\* crashed, the daemon's next step (the return of the sleep, the launch, the reap
\* and every step of a later tick) can be taken, and the sleep still ends by its
\* deadline.
C8_HandlerNeverDelays ==
    (HandlerAlive /\ ~Exited) =>
        /\ ENABLED Daemon
        /\ InHRS => now <= hrs.seconds + MaxService

\* C8 witness: a later tick reaps while a handler forked earlier still runs
C8_Witness ==
    /\ pc = "reap"
    /\ \E s \in Slots : children[s].kind = "handler" /\ children[s].pc = "h_handle"

\* C9: the parent holds no accepted descriptor when it resumes waiting, or at
\* any other moment than between accept() and the end of the fork.
C9_NoAcceptedDescriptorHeld ==
    pc # "hrs_accept" => parent_fds = 0

\* C10: in the handler child SIGPIPE has its default disposition when
\* HandleRunagentRequest is called; when that returns the child exits with
\* EXIT_SUCCESS; the child is never at a position of the daemon's code.
C10_HandlerChild ==
    \A s \in Slots :
        children[s].kind = "handler" =>
            /\ children[s].pc \in HandlerPcs
            /\ children[s].pc \notin LoopPcs \cup HRSPcs \cup {"shutdown", "done"}
            /\ children[s].pc = "h_start" => children[s].sigpipe = "SIG_IGN"
            /\ children[s].pc = "h_handle" => children[s].sigpipe = "SIG_DFL"
            /\ children[s].pc = "exited" =>
                  /\ children[s].sigpipe = "SIG_DFL"
                  /\ children[s].status \in {"EXIT_SUCCESS", "SIGNALED"}

\* C10 witness: a handler has returned from HandleRunagentRequest and exited with success
C10_Witness ==
    \E s \in Slots :
        /\ children[s].kind = "handler"
        /\ children[s].pc = "exited"
        /\ children[s].status = "EXIT_SUCCESS"
        /\ children[s].sigpipe = "SIG_DFL"

C12_FullReloadIffValid ==
    /\ pc \in {"full_begin", "env_reload"} =>
          /\ (sr.stale \/ sr.requested) <=> sr.valid # "none"
          /\ pc = "full_begin" <=> ((sr.stale \/ sr.requested) /\ sr.valid = "yes")
    /\ pc = "decide" =>
          IF InTrace("reload_begin")
          THEN /\ trace = <<"reap", "check", "reload_begin", "timeclasses", "reload_load">>
               /\ policy = "loaded"
               /\ exec_config = "built"
               /\ execd_config \in ExecdConfigs
          ELSE /\ trace = <<"reap", "check", "timeclasses">>
               /\ Triple = sr.old
C12_Witness ==
    /\ pc = "full_begin"
    /\ sr.requested
    /\ ~sr.stale

\* C13: when the reload is triggered and the promises are not valid, the tick
\* takes the environment reload with the policy and both configs it started
\* with, and these are the objects its decision is made with.
C13_InvalidKeepsPrevious ==
    /\ sr.valid = "no" =>
          /\ pc = "env_reload"
          /\ Triple = sr.old
          /\ policy = "loaded"
          /\ exec_config = "built"
          /\ execd_config \in ExecdConfigs
    /\ (pc = "decide" /\ ~InTrace("reload_begin")) =>
          /\ Triple = sr.old
          /\ policy = "loaded"
          /\ execd_config \in ExecdConfigs
C13_Witness ==
    /\ pc = "env_reload"
    /\ sr.valid = "no"
    /\ sr.stale

\* positions between the destruction of the old policy and the construction of
\* the new configs
ReloadPcs == {"full_load", "full_destroy", "full_new"}

\* C14 as stated: outside the reload itself the policy and both configs exist,
\* also when LoadPolicy has failed.
C14_TripleComplete ==
    (pc = "crashed" \/ (pc \notin ReloadPcs \cup {"main"} /\ ~Exited)) =>
        /\ policy = "loaded"
        /\ exec_config = "built"
        /\ execd_config \in ExecdConfigs

\* C15 as stated: no object of the old configuration is destroyed while its
\* replacement does not exist yet.
C15_StatedOrder ==
    (~Exited /\ pc # "main") =>
               /\ policy # "NULL"
               /\ exec_config # "destroyed"
               /\ execd_config # Destroyed

\* C15: on a full reload the old policy is destroyed before the new one is
\* loaded, and both old configs are destroyed after the new policy is loaded
\* and before their replacements are built; everywhere else in the running
\* daemon all three exist.
C15_ReloadOrder ==
    /\ pc = "full_load" =>
          policy = "NULL" /\ exec_config = "built" /\ execd_config # Destroyed
    /\ pc = "full_destroy" =>
          policy = "loaded" /\ exec_config = "built" /\ execd_config # Destroyed
    /\ pc = "full_new" =>
          policy = "loaded" /\ exec_config = "destroyed" /\ execd_config = Destroyed
    /\ (pc \notin ReloadPcs \cup {"main"} /\ ~Exited) =>
          policy = "loaded" /\ exec_config = "built" /\ execd_config \in ExecdConfigs
C15_Witness ==
    /\ pc = "full_new"
    /\ policy = "loaded"
    /\ execd_config = Destroyed

\* C16: on a full reload with the listener enabled the allow list of the old
\* config is held from before the config is destroyed until the comparison;
\* SetRunagentSocketACLs is called exactly when it differs from the new allow
\* list, with the new list; whether the call succeeds or not, the decision of
\* the tick follows.
C16_AclReapplied ==
    /\ (pc \in ReloadPcs /\ UsingRunagentSocket) =>
          sr.old_runagent_allow_users \in {c.runagent_allow_users : c \in ExecdConfigs}
    /\ (pc = "decide" /\ InTrace("reload_begin") /\ UsingRunagentSocket) =>
          /\ sr.acl.called <=>
                /\ sr.old_runagent_allow_users # execd_config.runagent_allow_users
                /\ GetRunagentSocketInfo
          /\ sr.acl.called => sr.acl.allow_users = execd_config.runagent_allow_users
          /\ ENABLED ScheduleRun
    /\ ~UsingRunagentSocket => ~sr.acl.called
C16_Witness ==
    /\ pc = "decide"
    /\ sr.old_runagent_allow_users = {"alice", "bob"}
    /\ execd_config.runagent_allow_users = {"alice"}
    /\ sr.acl.called
    /\ ~sr.acl.success

\* C17: a hang-up signal sets reload_requested and ends neither the daemon nor
\* its loop (it may end a sleep early); the
\* flag is cleared only by the step of CheckNewPromises that is followed by the
\* validation in the same tick; a tick whose check finds the flag set goes on
\* to that step; and from there the daemon's next step is the validation.
C17_HangupNeverLost ==
    [][/\ (reload_requested /\ ~reload_requested') =>
             (pc = "check_clear" /\ pc' = "check_valid")
       /\ (pc = "check" /\ pc' # pc /\ reload_requested) => pc' = "check_clear"
       /\ (pc = "check_valid" /\ pc' # pc) =>
             (pc' \in {"full_begin", "env_reload"} /\ sr'.valid # "none")
       /\ (~reload_requested /\ reload_requested') =>
             /\ UNCHANGED termination_pending
             /\ ~termination_pending => (pc' \notin ExitPcs /\ UNCHANGED exit_code)]_vars
C17_Witness ==
    /\ pc = "check_valid"
    /\ reload_requested

StartupStep(step) == \E i \in 1..Len(startup.steps) : startup.steps[i] = step
\* StartServer has not returned to the loop's first tick yet
InStartup == pc \in {"fork", "write_pid", "signals", "setup_socket", "bind", "once_exec"}

\* C18: when bind() is called nothing is at the endpoint path, whatever was
\* there at the start, so that the call can give a bound and listening
\* endpoint; the descriptor the loop listens on belongs to a bound file.
C18_UnlinkBeforeBind ==
    /\ pc = "bind" =>
          /\ ~sock_file
          /\ startup.steps[Len(startup.steps)] = "unlink"
          /\ startup.dir # "absent" =>
                ENABLED (BindAndListen /\ runagent_socket' = LISTEN_FD)
    /\ (runagent_socket >= 0 /\ pc # "done") => sock_file
C18_Witness ==
    /\ startup.stale
    /\ StartupStep("bind")
    /\ runagent_socket = LISTEN_FD
    /\ sock_file
    /\ pc = "loop_top"

\* the order of the steps of StartServer
StartRank(step) ==
    CASE step = "apoptosis" -> 1
      [] step = "fork" -> 2
      [] step = "pid" -> 3
      [] step = "signals" -> 4
      [] step = "unlink" -> 5
      [] step = "bind" -> 6
      [] step = "local_exec" -> 7

\* C19: the steps of StartServer come in the order Apoptosis, fork, PID file,
\* signal handlers, unlink, bind, each at most once; without --once Apoptosis
\* is the first of them, with --once it is not among them; the PID file and
\* the handlers are never left out; Apoptosis does not signal the process
\* itself, and a kill that fails does not keep StartServer from going on.
C19_StartupOrder ==
    /\ \A i \in 1..Len(startup.steps) - 1 :
          StartRank(startup.steps[i]) < StartRank(startup.steps[i + 1])
    /\ (InStartup /\ ~ONCE) => startup.steps[1] = "apoptosis"
    /\ ONCE => ~StartupStep("apoptosis") /\ ~StartupStep("fork")
    /\ pc \in {"signals", "setup_socket", "bind", "once_exec"} => StartupStep("pid")
    /\ pc \in {"setup_socket", "bind", "once_exec"} => StartupStep("signals")
    /\ StartupStep("bind") => StartupStep("unlink")
    /\ pid_writes = (IF StartupStep("pid") \/ pc \notin {"main", "load_failed", "start", "fork",
                                                           "write_pid", "forked_exit"}
                     THEN 1 ELSE 0)
    /\ getpid \notin startup.killed
    /\ pc = "fork" => exit_code = -1 /\ ENABLED Daemonize
C19_Witness ==
    /\ pc = "loop_top"
    /\ startup.steps = <<"apoptosis", "fork", "pid", "signals", "unlink", "bind">>
    /\ startup.killed # {}
    /\ startup.logged

\* C20 as stated: when main returns, after the loop or after the run of --once,
\* the endpoint file is gone if the listener was set up by this process, and
\* nothing has been unlinked if it was not.
C20_EndpointRemovedAtExit ==
    [][(pc' \in {"done", "once_done"} /\ pc' # pc) =>
          IF UsingRunagentSocket THEN ~sock_file' ELSE sock_file' = sock_file]_vars

StartupCount(step) == Len(SelectSeq(startup.steps, LAMBDA e : e = step))

\* C21: with --once the process does not fork into the background and does not
\* run Apoptosis; it never is at a position of the main loop or of
\* HandleRequestsOrSleep, so that no tick, no reload check, no decision, no
\* sleep and no accept takes place and no child is forked; LocalExec has run
\* exactly once, in the process itself, when StartServer returns, and not
\* before; main then returns 0.
C21_OnceRunsOnce ==
    ONCE =>
        /\ ~StartupStep("apoptosis") /\ startup.killed = {}
        /\ ~StartupStep("fork")
        /\ pc \notin LoopPcs \cup HRSPcs \cup {"done", "forked_exit", "crashed"}
        /\ trace = <<>> /\ decision = "none" /\ sr = NoSR
        /\ hrs = NoHRS /\ ret = NoRet
        /\ parent_fds = 0 /\ \A s \in Slots : children[s] = NoChild
        /\ StartupCount("local_exec") = (IF pc = "once_done" THEN 1 ELSE 0)
        /\ pc = "once_exec" => ENABLED RunOnce
        /\ pc = "once_done" => exit_code = 0

\* C21 witness: a --once run with the endpoint bound has run the agent and exited
C21_Witness ==
    /\ ONCE
    /\ pc = "once_done"
    /\ startup.steps = <<"pid", "signals", "unlink", "bind", "local_exec">>
    /\ runagent_socket = LISTEN_FD
    /\ exit_code = 0

\* the errors SetupRunagentSocket logs when it returns -1, lines 644-665
SetupErrors == {"socket", "bind", "listen"}

\* a failed socket(), bind() or listen() is logged and leaves the daemon
\* without a listener: StartServer goes on, and the sleeps of the loop are
\* then those of sleep()
SetupFailureHandled ==
    /\ (pc \in {"loop_top", "once_exec"} /\ StartupStep("unlink")) =>
          /\ runagent_socket < 0 <=> startup.log \cap SetupErrors # {}
          /\ StartupStep("bind") <=> "socket" \notin startup.log
          /\ ENABLED StartServer \/ ENABLED CFExecdMainLoop
    /\ runagent_socket < 0 => pc \notin {"hrs_select", "hrs_accept"}
    /\ runagent_socket \in {-1, LISTEN_FD}

\* C22 as stated: a failure to create, bind or listen on the runagent socket is
\* logged and is not fatal: no listener is returned, the process neither aborts
\* nor exits, and the main loop runs with the ordinary sleep.
C22_SetupFailureNotFatal ==
    /\ SetupFailureHandled
    /\ pc # "aborted"

\* C23: with an endpoint path too long for sun_path no directory is made,
\* nothing is unlinked or bound and no ACL is set, at startup, on a reload and
\* at exit: what is at the path stays as it was; the error is logged, there is
\* no listener, no select() and no accept(), and the daemon goes on into its
\* loop (or its single run) without aborting.
C23_LongPathDisablesListener ==
    /\ [](RUNAGENT_SOCKET_DIR = LongDir =>
            /\ runagent_socket = -1
            /\ ~StartupStep("unlink") /\ ~StartupStep("bind")
            /\ ~startup.created
            /\ ~sr.acl.called
            /\ pc \notin {"bind", "hrs_select", "hrs_accept", "aborted"}
            /\ pc = "setup_socket" => ENABLED SetupRunagentSocket
            /\ (pc \in {"loop_top", "once_exec"} /\ startup.steps # <<>>) =>
                  startup.log = {"socket"})
    /\ [][RUNAGENT_SOCKET_DIR = LongDir =>
            /\ sock_file' = sock_file
            /\ startup'.dir = startup.dir \/ startup' = NoStartup]_vars

\* C23 witness: with a path too long the daemon has run its loop and returned
\* from main, and the file that was at the path is still there
C23_Witness ==
    /\ RUNAGENT_SOCKET_DIR = LongDir
    /\ pc = "done"
    /\ exit_code = 0
    /\ sock_file
    /\ InTrace("decide")

\* the endpoint is bound and listened on, and StartServer is not over
BoundAtStartup == StartupStep("bind") /\ runagent_socket >= 0

\* a directory MakeParentDirectory made has mode 0750 when bind() is called
CreatedDirHasMode ==
    (startup.created /\ (pc = "bind" \/ BoundAtStartup)) => startup.dir = "0750"

\* C24 as stated: whenever an endpoint is bound its parent directory exists
\* with mode 0750, whether this startup made it or found it, and no file was
\* at the socket path when bind() was called.
C24_BoundDirMode ==
    /\ BoundAtStartup => startup.dir = "0750"
    /\ pc = "bind" => ~sock_file
    /\ CreatedDirHasMode

\* the errors logged by the step of HandleRequestsOrSleep just taken
LoggedByCall == hrs.log \cup ret.log

\* a step of lines 490-508, and the two failures it can meet: the accepted
\* descriptor is the one the parent is left with, the forked handler is the one
\* new entry of the process table
AcceptStep == pc = "hrs_accept" /\ pc' # "hrs_accept"
AcceptFailed == parent_fds' = parent_fds
ForkFailed == children' = children

\* a failure ends neither the call before its time nor the loop: the call goes
\* on waiting, or returns to the launch or to the next tick, and leaves the loop
\* only for a pending termination
ContinuesAfter ==
    /\ pc' \in {"hrs_select", "launch", "loop_top", "done"}
    /\ pc' = "done" => termination_pending
    /\ pc' = "hrs_select" => now' <= hrs.seconds + MaxService
    /\ pc' # "hrs_select" => ret'.at <= hrs.seconds + MaxService

\* C25 (as the code has it): inside HandleRequestsOrSleep a failed select()
\* (other than EINTR) and a failed fork() of a handler are logged, a failed
\* accept() is not tested and not logged and the handler is forked all the same;
\* after any of the three the call still returns by its deadline and the loop
\* goes on: the call waits again or returns to the launch or the next tick, and
\* the daemon's next step can be taken.
C25_ListenerFailuresContained ==
    /\ [](hrs.log = {"select"} =>
             /\ pc = "hrs_select"
             /\ now <= hrs.seconds + MaxService
             /\ ENABLED SelectTimeout)
    /\ []((LoggedByCall # {} /\ ~termination_pending) => (~Exited /\ ENABLED Daemon))
    /\ [][(hrs.log # {"select"} /\ hrs'.log = {"select"}) =>
             /\ pc' = "hrs_select"
             /\ hrs'.remaining = hrs.remaining
             /\ now' = now
             /\ children' = children]_vars
    /\ [][AcceptStep =>
             /\ ForkFailed <=> LoggedByCall' = {"fork"}
             /\ ~ForkFailed => LoggedByCall' = {}
             /\ ContinuesAfter]_vars

\* C25 witness: accept() failed and the handler was forked all the same, then
\* select() failed, and the call is still waiting for its deadline
C25_Witness ==
    /\ pc = "hrs_select"
    /\ hrs.log = {"select"}
    /\ hrs.wakes = 1
    /\ HandlerAlive
    /\ parent_fds = 0
    /\ hrs.remaining > 0

\* C25 as stated: each of the three failures is logged, a failed accept()
\* included
C25_EveryFailureLogged ==
    [][(AcceptStep /\ (AcceptFailed \/ ForkFailed)) => LoggedByCall' # {}]_vars

\* C26: if the policy cannot be loaded at startup the process logs an error and
\* exits with a non-zero code before Apoptosis runs, before a PID file is written
\* and before the endpoint path is touched: no step of StartServer is taken, no
\* running instance is terminated and the socket file is left as it was; the
\* steps of StartServer are taken only with a loaded policy.
C26_LoadFailureExitsEarly ==
    /\ [](pc = "load_failed" =>
             /\ policy = "NULL"
             /\ "policy" \in startup.log
             /\ exit_code = EXIT_FAILURE
             /\ exit_code # 0
             /\ startup.steps = <<>>
             /\ startup.killed = {}
             /\ pid_writes = 0
             /\ sock_file = startup.stale
             /\ ~startup.created
             /\ runagent_socket = -1
             /\ ~ENABLED Daemon)
    /\ [](pc \notin {"main", "load_failed"} => "policy" \notin startup.log)
    /\ [][(startup'.steps # startup.steps /\ startup'.steps # <<>>) =>
             policy = "loaded"]_vars
    /\ [][pc' = "load_failed" =>
             /\ pc = "main"
             /\ sock_file' = sock_file
             /\ startup'.dir = startup.dir
             /\ children' = children]_vars

\* C26 witness: the policy could not be loaded while the socket file of a running
\* instance was there: the process has exited with failure and the file is there
C26_Witness ==
    /\ pc = "load_failed"
    /\ exit_code = EXIT_FAILURE
    /\ startup.stale
    /\ sock_file
    /\ "policy" \in startup.log

\* the children that have not exited
RunningChildren(ch) == {ch[s] : s \in {r \in Slots : ch[r].pc \notin {"none", "exited"}}}
NumRunning(ch) == Cardinality({r \in Slots : ch[r].pc \notin {"none", "exited"}})

SleepReturns == pc = "hrs_sleep" /\ pc' # "hrs_sleep"

\* C28: with the socket directory given as "no" the daemon never unlinks,
\* creates or binds an endpoint or sets its ACLs, at startup, on reload or at exit;
\* without a listening socket no call waits in select(), accepts or forks a
\* handler; the call then returns terminate at once when termination is pending
\* on entry, and otherwise sleeps, for no longer than `seconds`, and returns
\* terminate exactly when termination is pending after the sleep.
C28_DisabledListener ==
    /\ [](RUNAGENT_SOCKET_DIR = "no" =>
             /\ runagent_socket = -1
             /\ ~StartupStep("unlink")
             /\ ~StartupStep("bind")
             /\ ~startup.created
             /\ startup.log \cap SetupErrors = {}
             /\ ~sr.acl.called)
    /\ [][RUNAGENT_SOCKET_DIR = "no" =>
             (sock_file' = sock_file /\ RUNAGENT_SOCKET_DIR' = "no")]_vars
    /\ [](runagent_socket < 0 =>
             /\ pc \notin {"hrs_select", "hrs_accept"}
             /\ ~HandlerAlive
             /\ parent_fds = 0
             /\ hrs.wakes = 0 /\ ret.wakes = 0
             /\ LoggedByCall = {})
    /\ [][(runagent_socket < 0 /\ pc = "hrs_entry" /\ pc' # "hrs_entry") =>
             IF termination_pending
             THEN ret'.terminate /\ ret'.at = now /\ pc' = "done"
             ELSE pc' = "hrs_sleep" /\ now' = now]_vars
    /\ [][SleepReturns =>
             /\ runagent_socket < 0
             /\ ret'.terminate = termination_pending'
             /\ ret'.terminate <=> pc' = "done"
             /\ ret'.at <= hrs.seconds]_vars

\* C28 witness: with the directory "no" and a socket file left at the path by
\* someone else, a terminate signal ended a sleep early and the daemon has exited;
\* the file is still there
C28_Witness ==
    /\ RUNAGENT_SOCKET_DIR = "no"
    /\ pc = "done"
    /\ ret.terminate
    /\ ret.at > 0
    /\ ret.at < ret.seconds
    /\ sock_file

\* the splay call of a tick whose splay_time is 0
ZeroSplay == hrs.reason = "splay" /\ hrs.seconds = 0

\* C29: with splay_time = 0 and a true decision the splay call suspends
\* nothing: it never waits in select() and accepts nothing, it returns in the
\* second it was entered without having been woken, and it is followed by the
\* launch in the same tick unless termination is pending; without a listening
\* socket the sleep it calls is sleep(0).
C29_ZeroSplayLaunchesAtOnce ==
    /\ []((InHRS /\ ZeroSplay) =>
             /\ decision = "true"
             /\ execd_config.splay_time = 0
             /\ pc \in {"hrs_entry", "hrs_sleep"}
             /\ pc = "hrs_sleep" => runagent_socket < 0
             /\ now = 0
             /\ hrs.wakes = 0
             /\ ~ENABLED SleepInterrupted
             /\ ENABLED HandleRequestsOrSleep)
    /\ []((ret.reason = "splay" /\ ret.seconds = 0) =>
             /\ ret.at = 0
             /\ ret.wakes = 0
             /\ ret.log = {})
    /\ []((pc = "launch" /\ execd_config.splay_time = 0) =>
             /\ LastStep = "splay"
             /\ InTrace("decide")
             /\ ret.at = 0
             /\ ~ret.terminate)
    /\ [][(InHRS /\ ZeroSplay /\ pc' \notin HRSPcs) =>
             /\ pc' = IF termination_pending THEN "done" ELSE "launch"
             /\ children' = children
             /\ parent_fds' = parent_fds
             /\ trace' = trace]_vars

\* C29 witness: with a listening socket and splay_time = 0 the decision was true
\* and the agent is about to be launched, no time having passed
C29_Witness ==
    /\ pc = "launch"
    /\ execd_config.splay_time = 0
    /\ runagent_socket >= 0
    /\ decision = "true"
    /\ ret.reason = "splay"
    /\ ret.at = 0

\* the last --skip-db-check option of the command line asks for the check
CheckEnabled(argv) ==
    /\ argv # <<>>
    /\ StringEqual_IgnoreCase(argv[Len(argv)], "no")

\* the step in which a startup looks for the flag file
LooksForFlag == db.pc = "flag" /\ db'.pc = "repair"

ForkedWithoutConnection == AcceptStep /\ AcceptFailed /\ ~ForkFailed

\* C37 as stated: a handler is forked only for a connection accept() returned:
\* the step in which accept() fails forks nothing, and ends by the deadline of
\* the call plus the time of the accept in service.
C37_ForkOnlyAfterAccept ==
    [][AcceptStep =>
          /\ ~ForkedWithoutConnection
          /\ pc' = "hrs_select" => now' <= hrs.seconds + MaxService
          /\ pc' # "hrs_select" => ret'.at <= hrs.seconds + MaxService]_vars

\* the part of C37 that holds: the step of accept() and fork() ends by the
\* deadline of the call plus the time of the accept in service
AcceptEndsByDeadline ==
    [][AcceptStep =>
          /\ pc' = "hrs_select" => now' <= hrs.seconds + MaxService
          /\ pc' # "hrs_select" => ret'.at <= hrs.seconds + MaxService]_vars

\* C36: a triggered reload that is rejected has taken over the timestamp it
\* read and cleared the request before the validation; a tick validates only
\* when the timestamp on disk is greater than the one taken over or a hang-up
\* is pending, and otherwise goes straight to the environment reload; the
\* timestamp taken over changes at no other step.
C36_RejectedNotRetried ==
    /\ [](sr.valid = "no" =>
             /\ pc = "env_reload"
             /\ last_validated_at = sr.validated_at)
    /\ [](pc = "check_valid" => (sr.stale \/ sr.requested))
    /\ [](last_validated_at <= validated_at)
    /\ [][(pc = "check" /\ pc' # pc) =>
             IF last_validated_at < validated_at \/ reload_requested
             THEN pc' = "check_clear"
             ELSE pc' = "env_reload" /\ sr'.valid = "none"]_vars
    /\ [][(pc = "check_clear" /\ pc' # pc) =>
             /\ pc' = "check_valid"
             /\ ~reload_requested'
             /\ last_validated_at' = sr.validated_at]_vars
    /\ [][last_validated_at' # last_validated_at => pc = "check_clear"]_vars

\* C36 witness: a reload triggered by a new timestamp has been rejected: the
\* timestamp is taken over, no request is pending, and the next tick will find
\* nothing to validate
C36_Witness ==
    /\ pc = "env_reload"
    /\ sr.valid = "no"
    /\ sr.stale
    /\ last_validated_at = validated_at
    /\ validated_at > 0
    /\ ~reload_requested

\* a call has returned false before `seconds` had passed
ReturnedEarly == ret.reason # "none" /\ ~ret.terminate /\ ret.at < ret.seconds

\* C34 (as the code has it): with a listening socket a call that returns false
\* has lasted the full `seconds`, whatever signals woke it; a call returns false
\* early only without a listening socket, where sleep(seconds) ends at the
\* hang-up signal whose handler ran.
C34_FullSleepWithListener ==
    /\ (ret.reason # "none" /\ ~ret.terminate /\ runagent_socket >= 0) =>
          ret.at >= ret.seconds
    /\ ReturnedEarly => (runagent_socket < 0 /\ reload_requested)
    /\ (InHRS /\ pc # "hrs_sleep") => now <= hrs.seconds + MaxService

\* C34 witness: with a listening socket a hang-up arrived during the pulse
\* sleep, which has returned false after its full time
C34_Witness ==
    /\ pc = "loop_top"
    /\ runagent_socket >= 0
    /\ ret.reason = "pulse"
    /\ ~ret.terminate
    /\ ret.wakes >= 1
    /\ reload_requested
    /\ ret.at = ret.seconds

\* C34 as stated: with or without a listening socket, a call that returns
\* false returns only after the full `seconds` since its entry.
C34_NoEarlyReturn ==
    (ret.reason # "none" /\ ~ret.terminate) => ret.at >= ret.seconds

\* C32 as stated: a --once run started while the socket file of a running
\* daemon is at the endpoint path neither unlinks the file nor binds one of its
\* own, and when it has exited the file that was there is still there.
C32_OnceLeavesEndpoint ==
    (ONCE /\ startup.stale) =>
        /\ ~StartupStep("unlink")
        /\ ~StartupStep("bind")
        /\ sock_file

\* the part of C32 that holds: a --once run sends no signal to the running daemon
OnceKillsNothing == ONCE => (startup.killed = {} /\ ~StartupStep("apoptosis"))

\* the detached runs (threads and forked children) among the runs
Detached == {i \in DOMAIN tasks.runs : tasks.runs[i].kind \in {"fork", "thread"}}

\* C35: a detached agent run uses its own ExecConfig, taken at its launch: while
\* the child or thread runs, its object is built, holds the policy generation of
\* the launch and is not the supervisor's object, whatever full reloads happen
\* meanwhile; what LocalExec read is that configuration; no object is destroyed
\* twice; a thread's copy is destroyed once, by that thread, a child's never,
\* and the supervisor destroys no object of a detached run.
C35_OwnSnapshot ==
    /\ \A i \in Detached :
          LET r == tasks.runs[i]
              o == tasks.heap[r.config]
          IN  /\ r.config # tasks.exec_config
              /\ r.pc \in {"exec", "destroy"} => (o.state = "built" /\ o.policy = r.policy)
              /\ r.saw # "none" => (r.saw = "built" /\ r.saw_policy = r.policy)
              /\ o.by # Supervisor
              /\ (r.kind = "thread" /\ r.pc = "done") => (o.frees = 1 /\ o.by = i)
              /\ r.kind = "fork" => o.frees = 0
    /\ \A c \in DOMAIN tasks.heap : tasks.heap[c].frees <= 1

\* C35 witness: a thread that ran across a full reload has finished and
\* destroyed its copy, and a later run is still in LocalExec while the
\* supervisor has reloaded again
C35_Witness ==
    \E i, j \in Detached :
        /\ tasks.runs[i].kind = "thread"
        /\ tasks.runs[i].pc = "done"
        /\ tasks.heap[tasks.runs[i].config].by = i
        /\ tasks.runs[i].during >= 1
        /\ tasks.runs[i].saw = "built"
        /\ tasks.runs[j].pc = "exec"
        /\ tasks.runs[j].during >= 1
        /\ tasks.heap[tasks.exec_config].policy > tasks.runs[j].policy

\* the endpoint path in full, as the format of line 590 or 595 spells it
FullPath == SocketPath(sun.state_dir, sun.dir)

\* C33 as stated: GetRunagentSocketInfo returns true only if sun_path holds the
\* whole endpoint path, whatever the length of the directory, and the path
\* unlinked and bound is the whole path.
C33_OnlyCompletePaths ==
    /\ (sun.pc \in {"returned", "bound"} /\ sun.ok) => sun.sun_path = FullPath
    /\ sun.pc = "bound" => (sun.unlinked = FullPath /\ sun.bound = FullPath)

\* the part of C33 that holds: sun_path is NUL-terminated within the array, a
\* path of sizeof(sun_path) characters or more is reported as failure, a path of
\* up to sizeof(sun_path) - 2 characters is stored whole, and a path reported as
\* success has lost at most its last character
PathWithinOneCharacter ==
    sun.pc \in {"returned", "bound", "disabled"} =>
        /\ Len(sun.sun_path) < sizeof_sun_path
        /\ Len(FullPath) >= sizeof_sun_path => ~sun.ok
        /\ Len(FullPath) <= sizeof_sun_path - 2 => (sun.ok /\ sun.sun_path = FullPath)
        /\ sun.ok => sun.sun_path = SubSeq(FullPath, 1, Len(sun.sun_path))
        /\ sun.ok => Len(sun.sun_path) >= Len(FullPath) - 1

\* an open that found the count 0 and did not get the database: the path lock
\* failed, or the lock was taken and no database came of it
FailedFirstOpen ==
    /\ handle.last.op = "open"
    /\ handle.last.refcount = 0
    /\ ~handle.last.opened

\* C38 as stated: the count is the opens that returned true minus the closes and
\* is never negative; the database is open exactly while the count is positive;
\* OpenDB returns true only with the database open; an open at count 0 whose
\* path lock or underlying open fails returns false and leaves the count at 0.
C38_RefcountTracksOpen ==
    /\ handle.refcount >= 0
    /\ handle.refcount = handle.opens - handle.closes
    /\ handle.refcount > 0 <=> handle.priv = "open"
    /\ (handle.last.op = "open" /\ handle.last.result) => handle.last.given = "open"
    /\ FailedFirstOpen => (~handle.last.result /\ handle.refcount = 0)

\* the part of C38 that holds: the count is never negative and is the opens
\* minus the closes, a positive count always has priv set, and everything
\* stated holds of a handle that has never been given a closed priv to use
CountNeverNegative ==
    /\ handle.refcount >= 0
    /\ handle.refcount = handle.opens - handle.closes
    /\ handle.refcount > 0 => handle.priv # "NULL"
    /\ ~handle.stale =>
          /\ handle.refcount > 0 <=> handle.priv = "open"
          /\ (handle.last.op = "open" /\ handle.last.result) => handle.last.given = "open"
          /\ FailedFirstOpen => (~handle.last.result /\ handle.refcount = 0)

\* C31 as stated: once the new instance has bound its endpoint, its socket file
\* is at the endpoint path for as long as it runs, and the old instance's
\* shutdown never unlinks it.
C31_NewSocketKept ==
    /\ inst.at.new \in {"listen", "exit_unlink"} \cup InMainLoop => inst.file = "new"
    /\ ~inst.lost

\* the part of C31 that holds: the terminate signal is sent before the new
\* instance touches the endpoint, and its bind() never finds a file in the way
NoCollidingBind ==
    /\ inst.at.new \notin {"none", "apoptosis"} => (inst.term.old \/ inst.at.old = "exited")
    /\ inst.at.new = "bind" => inst.file = "none"
    /\ inst.at.new # "no_listener"
====
